---- MODULE Spec2Model ----
(***************************************************************************)
(* Model of the 256-bit integer kernel of the `fixed` crate                *)
(* (src/src/int256.rs).                                                    *)
(*                                                                         *)
(* The kernel works on u64, u128 and i128 machine words and on the two     *)
(* limb structures U256 and I256.  A machine word is modelled at its true  *)
(* width as the little-endian sequence of its bytes (8 bytes for a 64-bit  *)
(* word, 16 for a 128-bit word); a signed word is its two's-complement     *)
(* bit pattern.  U256 and I256 are records [lo, hi] of two 16-byte words.  *)
(* Every Rust primitive the kernel uses (wrapping and overflowing          *)
(* arithmetic, shifts, casts, comparisons) is an operator on byte          *)
(* sequences, and every function of the kernel is an operator translated   *)
(* statement by statement from its source.                                 *)
(*                                                                         *)
(* The exact (unbounded) integers the contracts speak of are byte          *)
(* sequences of any length (naturals) and sign/magnitude records           *)
(* (integers).                                                             *)
(***************************************************************************)
EXTENDS Integers, Sequences, FiniteSets, TLC

VARIABLES
    fn,     \* the kernel function the call is to
    args,   \* the arguments of the call, a record
    pc,     \* "call" before the function has run, "return" once it has returned
    out     \* the value returned, NoValue before the return

vars == <<fn, args, pc, out>>

NoValue == <<>>

(***************************************************************************)
(* Widths, in bytes.                                                       *)
(***************************************************************************)
\* u64 / i64: the half limb of u128_lo_hi
B64 == 8
\* u128 / i128: one limb of U256 / I256
B128 == 16
\* the whole of a U256 / I256
B256 == 32

(***************************************************************************)
(* Naturals of unbounded size: little-endian byte sequences.               *)
(***************************************************************************)
Max2(x, y) == IF x >= y THEN x ELSE y

\* the function f on 1..n as a sequence written out (<<f[1], ..., f[n]>>)
AsSeq(f) == f \o <<>>

\* body(v) with v computed first: a `let` statement of the code followed by the
\* statements after it.  The value of v is computed once, where the statement
\* stands, and body sees that value under the name it chooses.
Let(v, body(_)) == CHOOSE result \in {body(x) : x \in {v}} : TRUE

\* 64 zero bytes: more than any number here needs
ZeroBytes == AsSeq([i \in 1..64 |-> 0])

\* x at exactly n bytes: cut to the low n bytes or extended with zero bytes
Ext(x, n) == SubSeq(x \o ZeroBytes, 1, n)

\* the n-byte word of a small number v (v < 2^24)
Small(v, n) ==
    AsSeq([i \in 1..n |-> IF i = 1 THEN v % 256
                          ELSE IF i = 2 THEN (v \div 256) % 256
                          ELSE IF i = 3 THEN (v \div 65536) % 256
                          ELSE 0])

\* the n-byte word 2^k (k < 8n)
Pow2(k, n) == AsSeq([i \in 1..n |-> IF i = (k \div 8) + 1 THEN 2 ^ (k % 8) ELSE 0])

\* the n-byte word with every bit set
AllOnes(n) == AsSeq([i \in 1..n |-> 255])

IsZero(x) == \A i \in 1..Len(x) : x[i] = 0

\* a < b for a and b of the same length: they differ, and a has the smaller byte
\* at the most significant place where they do
LtSame(a, b) ==
    \E i \in 1..Len(a) : a[i] < b[i] /\ \A j \in (i + 1)..Len(a) : a[j] = b[j]

NatLt(a, b) ==
    LET n == Max2(Len(a), Len(b))
    IN  LtSame(Ext(a, n), Ext(b, n))

NatLe(a, b) == ~NatLt(b, a)

NatEq(a, b) ==
    LET n == Max2(Len(a), Len(b))
    IN  Ext(a, n) = Ext(b, n)

\* the carry into byte i of a + b (a and b of the same length): some lower byte
\* overflows and every byte between passes the carry on
CarryInto(a, b, i) ==
    \E j \in 1..(i - 1) :
        a[j] + b[j] > 255 /\ \A k \in (j + 1)..(i - 1) : a[k] + b[k] = 255

AddSame(a, b) ==
    AsSeq([i \in 1..(Len(a) + 1) |->
        LET c == IF CarryInto(a, b, i) THEN 1 ELSE 0
        IN  IF i <= Len(a) THEN (a[i] + b[i] + c) % 256 ELSE c])

\* a + b, one byte longer than the longer of a and b
NatAdd(a, b) ==
    LET n == Max2(Len(a), Len(b))
    IN  AddSame(Ext(a, n), Ext(b, n))

\* the borrow from byte i of a - b (a and b of the same length)
BorrowFrom(a, b, i) ==
    \E j \in 1..(i - 1) :
        a[j] < b[j] /\ \A k \in (j + 1)..(i - 1) : a[k] = b[k]

SubSame(a, b) ==
    <<AsSeq([i \in 1..Len(a) |->
          (256 + a[i] - b[i] - (IF BorrowFrom(a, b, i) THEN 1 ELSE 0)) % 256]),
      IF BorrowFrom(a, b, Len(a) + 1) THEN 1 ELSE 0>>

\* <<(a - b) mod 256^n, borrow>> for n the length of the longer of a and b
NatSubBorrow(a, b) ==
    LET n == Max2(Len(a), Len(b))
    IN  SubSame(Ext(a, n), Ext(b, n))

\* a - b for a >= b
NatSub(a, b) == NatSubBorrow(a, b)[1]

RECURSIVE ColSum(_, _, _, _, _)
\* the sum of a[i] * b[k + 1 - i] for i from i to hi
ColSum(a, b, k, i, hi) ==
    IF i > hi THEN 0
    ELSE a[i] * b[k + 1 - i] + ColSum(a, b, k, i + 1, hi)

\* the column sums of the schoolbook product: column k holds the products of
\* the bytes a[i] and b[j] with i + j = k + 1
Columns(a, b) ==
    AsSeq([k \in 1..(Len(a) + Len(b)) |->
        ColSum(a, b, k, Max2(1, k + 1 - Len(b)), IF k < Len(a) THEN k ELSE Len(a))])

\* one pass of carries: each column keeps its low byte and takes what the
\* column below it holds above its low byte
CarryPass(p) ==
    AsSeq([k \in 1..Len(p) |->
        (p[k] % 256) + (IF k > 1 THEN p[k - 1] \div 256 ELSE 0)])

\* a * b, of Len(a) + Len(b) bytes.  A column sum is below 2^21 for factors of
\* up to 32 bytes, so three passes leave every column at 256 or less.
NatMul(a, b) ==
    LET p == CarryPass(CarryPass(CarryPass(Columns(a, b))))
        low == AsSeq([k \in 1..Len(p) |-> p[k] % 256])
        high == AsSeq([k \in 1..Len(p) |-> IF k > 1 THEN p[k - 1] \div 256 ELSE 0])
    IN  Ext(NatAdd(low, high), Len(p))

\* a * m for a byte m: the low bytes of the byte products, plus their high
\* bytes one place up; of Len(a) + 1 bytes
MulByte(a, m) ==
    LET low == AsSeq([k \in 1..Len(a) |-> (a[k] * m) % 256])
        high == AsSeq([k \in 1..(Len(a) + 1) |-> IF k > 1 THEN (a[k - 1] * m) \div 256 ELSE 0])
    IN  Ext(NatAdd(low, high), Len(a) + 1)

\* the index of the most significant byte of d that is not 0 (d # 0)
TopByte(d) == CHOOSE t \in 1..Len(d) : d[t] # 0 /\ \A j \in (t + 1)..Len(d) : d[j] = 0

\* The quotient byte of one step of the long division: the q with
\* q * d <= r < (q + 1) * d, for r < 256 * d.  With t the top byte of d, D the
\* number d[t], d[t-1] and R the number r[t+1], r[t], r[t-1], q lies between
\* R / (D + 1) and (R + 1) / D; the candidates in that range are tried.
QuotDigit(r, d) ==
    LET t == TopByte(d)
        B(x, j) == IF j >= 1 /\ j <= Len(x) THEN x[j] ELSE 0
        D == 256 * d[t] + B(d, t - 1)
        R == 65536 * B(r, t + 1) + 256 * B(r, t) + B(r, t - 1)
        low == R \div (D + 1)
        high == IF (R + 1) \div D > 255 THEN 255 ELSE (R + 1) \div D
    IN  CHOOSE q \in low..high :
            /\ NatLe(MulByte(d, q), r)
            /\ q = high \/ NatLt(r, MulByte(d, q + 1))

RECURSIVE DivFrom(_, _, _, _, _)
\* long division of a by d, a byte at a time from byte i down; r is the running
\* remainder (r < d) and acc the quotient bytes found so far
DivFrom(a, d, i, r, acc) ==
    CASE i = 0 -> <<acc, r>>
      [] i > 0 /\ NatLt(<<a[i]>> \o r, d) ->
            DivFrom(a, d, i - 1, Ext(<<a[i]>> \o r, Len(d)), <<0>> \o acc)
      [] OTHER ->
            DivFrom(a, d, i - 1,
                    Ext(NatSub(<<a[i]>> \o r,
                               MulByte(d, QuotDigit(<<a[i]>> \o r, d))), Len(d)),
                    <<QuotDigit(<<a[i]>> \o r, d)>> \o acc)

\* <<a div d, a mod d>> for d # 0: the quotient of Len(a) bytes, the remainder of Len(d)
NatDivMod(a, d) == DivFrom(a, d, Len(a), Ext(<<>>, Len(d)), <<>>)

(***************************************************************************)
(* Integers of unbounded size: sign and magnitude.                         *)
(***************************************************************************)
IntOf(neg, mag) == [neg |-> neg /\ ~IsZero(mag), mag |-> mag]

IntEq(x, y) == x.neg = y.neg /\ NatEq(x.mag, y.mag)

IntNeg(x) == IntOf(~x.neg, x.mag)

IntMul(x, y) == IntOf(x.neg # y.neg, NatMul(x.mag, y.mag))

IntAdd(x, y) ==
    IF x.neg = y.neg THEN IntOf(x.neg, NatAdd(x.mag, y.mag))
    ELSE IF NatLe(y.mag, x.mag) THEN IntOf(x.neg, NatSub(x.mag, y.mag))
    ELSE IntOf(y.neg, NatSub(y.mag, x.mag))

\* x < y
IntLt(x, y) ==
    IF x.neg # y.neg THEN x.neg
    ELSE IF x.neg THEN NatLt(y.mag, x.mag)
    ELSE NatLt(x.mag, y.mag)

IntLe(x, y) == ~IntLt(y, x)

(***************************************************************************)
(* Machine words: the primitives of Rust's integer types.  A word is the   *)
(* little-endian sequence of its bytes; the operators work at the width of *)
(* their first operand.                                                    *)
(***************************************************************************)
\* the bits of the word
Bits(a) == 8 * Len(a)

\* bool as u128, bool as i128
bool_as(b, n) == Small(IF b THEN 1 ELSE 0, n)

\* a.wrapping_add(b)
wrapping_add(a, b) == Ext(NatAdd(a, b), Len(a))

\* a.overflowing_add(b) of an unsigned type: the wrapped sum and the carry out
overflowing_add(a, b) ==
    LET s == NatAdd(a, b)
    IN  <<Ext(s, Len(a)), s[Len(a) + 1] # 0>>

\* a.wrapping_sub(b)
wrapping_sub(a, b) == NatSubBorrow(a, b)[1]

\* a.overflowing_sub(b) of an unsigned type: the wrapped difference and the borrow
overflowing_sub(a, b) ==
    LET s == NatSubBorrow(a, b)
    IN  <<s[1], s[2] # 0>>

\* a.wrapping_neg()
wrapping_neg(a) == wrapping_sub(Ext(<<>>, Len(a)), a)

\* a.overflowing_neg() of an unsigned type: the flag is set unless a is 0
overflowing_neg(a) == <<wrapping_neg(a), ~IsZero(a)>>

\* a.wrapping_mul(b), the same bits for a signed and an unsigned type
wrapping_mul(a, b) == Ext(NatMul(a, b), Len(a))

\* !a
BitNot(a) == AsSeq([i \in 1..Len(a) |-> 255 - a[i]])

RECURSIVE OrByte(_, _)
OrByte(x, y) ==
    IF x = 0 THEN y
    ELSE IF y = 0 THEN x
    ELSE (IF x % 2 = 1 \/ y % 2 = 1 THEN 1 ELSE 0) + 2 * OrByte(x \div 2, y \div 2)

\* a | b
BitOr(a, b) == AsSeq([i \in 1..Len(a) |-> OrByte(a[i], b[i])])

\* the sign bit of a signed word: a.is_negative(), a < 0
is_negative(a) == a[Len(a)] >= 128

\* The shift amount a primitive shift uses.  Rust checks the amount against the
\* width in a build with overflow checks; without them the amount is masked.
ShiftAmount(a, k) == k % Bits(a)

\* a << k
Shl(a, k) ==
    LET q == ShiftAmount(a, k) \div 8
        m == ShiftAmount(a, k) % 8
        B(j) == IF j >= 1 THEN a[j] ELSE 0
    IN  AsSeq([i \in 1..Len(a) |->
            ((B(i - q) * (2 ^ m)) % 256) + (B(i - q - 1) \div (2 ^ (8 - m)))])

\* a >> k with the vacated bits filled from the byte fill (0 or 255)
ShrFill(a, k, fill) ==
    LET q == ShiftAmount(a, k) \div 8
        m == ShiftAmount(a, k) % 8
        B(j) == IF j <= Len(a) THEN a[j] ELSE fill
    IN  AsSeq([i \in 1..Len(a) |->
            (B(i + q) \div (2 ^ m)) + ((B(i + q + 1) % (2 ^ m)) * (2 ^ (8 - m)))])

\* a >> k of an unsigned type
Shr(a, k) == ShrFill(a, k, 0)

\* a >> k of a signed type
Sar(a, k) == ShrFill(a, k, IF is_negative(a) THEN 255 ELSE 0)

\* a as a wider unsigned type, or cut to a narrower type
ZeroExt(a, n) == Ext(a, n)

\* a signed word as a wider signed type
SignExt(a, n) ==
    AsSeq([i \in 1..n |-> IF i <= Len(a) THEN a[i] ELSE IF is_negative(a) THEN 255 ELSE 0])

RECURSIVE ZerosInByte(_, _)
\* the leading zero bits of a byte x looked at as w bits
ZerosInByte(x, w) == IF x = 0 THEN w ELSE ZerosInByte(x \div 2, w - 1)

RECURSIVE ZerosFrom(_, _)
ZerosFrom(a, i) ==
    IF i = 0 THEN 0
    ELSE IF a[i] = 0 THEN 8 + ZerosFrom(a, i - 1)
    ELSE ZerosInByte(a[i], 8)

\* a.leading_zeros()
leading_zeros(a) == ZerosFrom(a, Len(a))

\* a < b, a <= b, a == b of an unsigned type
ULt(a, b) == NatLt(a, b)
ULe(a, b) == NatLe(a, b)

\* the value of an unsigned word
UVal(a) == IntOf(FALSE, a)

\* the value of a signed word
IVal(a) ==
    IF is_negative(a) THEN IntOf(TRUE, NatSub(Pow2(Bits(a), Len(a) + 1), a))
    ELSE IntOf(FALSE, a)

\* a < b of a signed type
ILt(a, b) == IntLt(IVal(a), IVal(b))

\* a.overflowing_add(b) of a signed type: the wrapped sum, and whether the
\* exact sum is outside the type
overflowing_add_signed(a, b) ==
    LET s == wrapping_add(a, b)
    IN  <<s, is_negative(a) = is_negative(b) /\ is_negative(s) # is_negative(a)>>

\* <<a / b, a % b>> of an unsigned type (b # 0)
UDivRem(a, b) ==
    Let(NatDivMod(a, b), LAMBDA qr : <<Ext(qr[1], Len(a)), Ext(qr[2], Len(a))>>)

(***************************************************************************)
(* The limb structures.                                                    *)
(***************************************************************************)
\* struct U256 { lo: u128, hi: u128 }
U256(lo, hi) == [lo |-> lo, hi |-> hi]

\* struct I256 { lo: u128, hi: i128 }
I256(lo, hi) == [lo |-> lo, hi |-> hi]

\* the value hi * 2^128 + lo of a U256
U256Val(a) == IntOf(FALSE, a.lo \o a.hi)

\* the value hi * 2^128 + lo of an I256, hi signed
I256Val(a) ==
    IF is_negative(a.hi)
    THEN IntOf(TRUE, NatSub(Pow2(8 * B256, B256 + 1), a.lo \o a.hi))
    ELSE IntOf(FALSE, a.lo \o a.hi)

u256_wrapping_as_i256(a) == I256(a.lo, a.hi)

(***************************************************************************)
(* Addition, subtraction and negation across the two limbs.                *)
(***************************************************************************)
\* wrapping_add_u256_u128 without the carry into the high limb
wrapping_add_u256_u128_carry_lost(a, b) ==
    LET lo_carry == overflowing_add(a.lo, b)
    IN  U256(lo_carry[1], a.hi)

wrapping_add_u256_u128(a, b) ==
    LET lo_carry == overflowing_add(a.lo, b)
        hi == wrapping_add(a.hi, bool_as(lo_carry[2], B128))
    IN  U256(lo_carry[1], hi)

\* overflowing_add_u128_u256 reporting the carry of the low limbs only
overflowing_add_u128_u256_carry_only(a, b) ==
    LET lo_carry == overflowing_add(a, b.lo)
    IN  <<lo_carry[1], lo_carry[2]>>

overflowing_add_u128_u256(a, b) ==
    LET lo_carry == overflowing_add(a, b.lo)
    IN  <<lo_carry[1], lo_carry[2] \/ ~IsZero(b.hi)>>

overflowing_sub_u128_u256(a, b) ==
    LET lo_borrow == overflowing_sub(a, b.lo)
    IN  <<lo_borrow[1], lo_borrow[2] \/ ~IsZero(b.hi)>>

\* the carry of (!a.lo).overflowing_add(1), added into the high limb
wrapping_neg_u256_carry(a) == overflowing_add(BitNot(a.lo), Small(1, B128))[2]

\* wrapping_neg_u256 without the carry into the high limb
wrapping_neg_u256_carry_lost(a) ==
    LET lo_carry == overflowing_add(BitNot(a.lo), Small(1, B128))
        hi == BitNot(a.hi)
    IN  U256(lo_carry[1], hi)

wrapping_neg_u256(a) ==
    LET lo_carry == overflowing_add(BitNot(a.lo), Small(1, B128))
        hi == wrapping_add(BitNot(a.hi), bool_as(wrapping_neg_u256_carry(a), B128))
    IN  U256(lo_carry[1], hi)

\* b_hi_plus_carry with b.hi from a logical shift, 0 or 1
overflowing_add_i256_i128_b_hi_logical(a, b) ==
    LET bw == I256(b, Shr(b, 127))
        lo_carry == overflowing_add(a.lo, bw.lo)
    IN  <<bw.hi, lo_carry[2], wrapping_add(bw.hi, bool_as(lo_carry[2], B128))>>

\* let b_hi_plus_carry = b.hi.wrapping_add(carry as i128), b widened to an I256:
\* <<b.hi, carry, b_hi_plus_carry>>
overflowing_add_i256_i128_b_hi_plus_carry(a, b) ==
    LET bw == I256(b, Sar(b, 127))
        lo_carry == overflowing_add(a.lo, bw.lo)
    IN  <<bw.hi, lo_carry[2], wrapping_add(bw.hi, bool_as(lo_carry[2], B128))>>

\* overflowing_add_i256_i128 reporting the carry out of the high limb, the flag
\* of an unsigned addition
overflowing_add_i256_i128_carry_flag(a, b) ==
    LET bw == I256(b, Sar(b, 127))
        lo_carry == overflowing_add(a.lo, bw.lo)
        b_hi_plus_carry == overflowing_add_i256_i128_b_hi_plus_carry(a, b)[3]
        hi_overflow == overflowing_add(a.hi, b_hi_plus_carry)
    IN  <<I256(lo_carry[1], hi_overflow[1]), hi_overflow[2]>>

overflowing_add_i256_i128(a, b) ==
    LET bw == I256(b, Sar(b, 127))
        lo_carry == overflowing_add(a.lo, bw.lo)
        b_hi_plus_carry == overflowing_add_i256_i128_b_hi_plus_carry(a, b)[3]
        hi_overflow == overflowing_add_signed(a.hi, b_hi_plus_carry)
    IN  <<I256(lo_carry[1], hi_overflow[1]), hi_overflow[2]>>

\* the two carries out of the high limb: <<carry1_a, carry1_b>>
overflowing_add_u256_carries(a, b) ==
    LET lo_carry0 == overflowing_add(a.lo, b.lo)
        hi_carry1_a == overflowing_add(a.hi, b.hi)
        hi_carry1_b == overflowing_add(hi_carry1_a[1], bool_as(lo_carry0[2], B128))
    IN  <<hi_carry1_a[2], hi_carry1_b[2]>>

\* overflowing_add_u256 reporting the carry of a.hi + b.hi only
overflowing_add_u256_carry1_a_only(a, b) ==
    LET lo_carry0 == overflowing_add(a.lo, b.lo)
        hi_carry1_a == overflowing_add(a.hi, b.hi)
        hi_carry1_b == overflowing_add(hi_carry1_a[1], bool_as(lo_carry0[2], B128))
    IN  <<U256(lo_carry0[1], hi_carry1_b[1]), hi_carry1_a[2]>>

overflowing_add_u256(a, b) ==
    LET lo_carry0 == overflowing_add(a.lo, b.lo)
        hi_carry1_a == overflowing_add(a.hi, b.hi)
        hi_carry1_b == overflowing_add(hi_carry1_a[1], bool_as(lo_carry0[2], B128))
        carries == overflowing_add_u256_carries(a, b)
    IN  <<U256(lo_carry0[1], hi_carry1_b[1]), carries[1] \/ carries[2]>>

wrapping_sub_u256(a, b) ==
    LET lo_borrow == overflowing_sub(a.lo, b.lo)
        hi == wrapping_sub(wrapping_sub(a.hi, b.hi), bool_as(lo_borrow[2], B128))
    IN  U256(lo_borrow[1], hi)

(***************************************************************************)
(* Half limbs and the widening multiplication.                             *)
(***************************************************************************)
\* (u as u64, (u >> 64) as u64)
u128_lo_hi(u) == <<ZeroExt(u, B64), ZeroExt(Shr(u, 64), B64)>>

\* (i as u64, (i >> 64) as i64)
i128_lo_hi(i) == <<ZeroExt(i, B64), ZeroExt(Sar(i, 64), B64)>>

mul_u64_u64(a, b) == wrapping_mul(ZeroExt(a, B128), ZeroExt(b, B128))

mul_i64_i64(a, b) == wrapping_mul(SignExt(a, B128), SignExt(b, B128))

\* mul_u64_i64 without the correction for an a with its top bit set
mul_u64_i64_uncorrected(a, b) == wrapping_mul(SignExt(a, B128), SignExt(b, B128))

\* the correction of mul_u64_i64 decided by the sign of b
mul_u64_i64_correction_sign_of_b(a, b) ==
    IF is_negative(b) THEN Shl(SignExt(b, B128), 64) ELSE Small(0, B128)

\* let correction = if a.is_negative() { (b as i128) << 64 } else { 0 }, a as i64
mul_u64_i64_correction(a, b) ==
    IF is_negative(a) THEN Shl(SignExt(b, B128), 64) ELSE Small(0, B128)

mul_u64_i64(a, b) ==
    LET correction == mul_u64_i64_correction(a, b)
    IN  wrapping_add(wrapping_mul(SignExt(a, B128), SignExt(b, B128)), correction)

\* the intermediates of wide_mul_u128 with the low half of ll_rl taken as col64a
wide_mul_u128_cols_halves_swapped(lhs, rhs) ==
    LET ll == u128_lo_hi(lhs)[1]
        lh == u128_lo_hi(lhs)[2]
        rl == u128_lo_hi(rhs)[1]
        rh == u128_lo_hi(rhs)[2]
        ll_rl == mul_u64_u64(ll, rl)
        lh_rl == mul_u64_u64(lh, rl)
        ll_rh == mul_u64_u64(ll, rh)
        lh_rh == mul_u64_u64(lh, rh)
        col64a == u128_lo_hi(ll_rl)[1]
        col64b == wrapping_add(ZeroExt(col64a, B128), lh_rl)
        col64c == u128_lo_hi(col64b)[1]
        col128a == u128_lo_hi(col64b)[2]
        col64d == wrapping_add(ZeroExt(col64c, B128), ll_rh)
        col128b == u128_lo_hi(col64d)[2]
        ans128a == wrapping_add(lh_rh, ZeroExt(col128a, B128))
    IN  [lh_rl |-> lh_rl, ll_rh |-> ll_rh, lh_rh |-> lh_rh,
         col64a |-> col64a, col64b |-> col64b, col64c |-> col64c,
         col128a |-> col128a, col64d |-> col64d, col128b |-> col128b,
         ans128a |-> ans128a,
         ans128 |-> wrapping_add(ans128a, ZeroExt(col128b, B128))]

\* The intermediates of wide_mul_u128 that enter its wrapping additions, by
\* their names in the code; ans128a is lh_rh.wrapping_add(col128a as u128).
wide_mul_u128_cols(lhs, rhs) ==
    LET ll == u128_lo_hi(lhs)[1]
        lh == u128_lo_hi(lhs)[2]
        rl == u128_lo_hi(rhs)[1]
        rh == u128_lo_hi(rhs)[2]
        ll_rl == mul_u64_u64(ll, rl)
        lh_rl == mul_u64_u64(lh, rl)
        ll_rh == mul_u64_u64(ll, rh)
        lh_rh == mul_u64_u64(lh, rh)
        col64a == u128_lo_hi(ll_rl)[2]
        col64b == wrapping_add(ZeroExt(col64a, B128), lh_rl)
        col64c == u128_lo_hi(col64b)[1]
        col128a == u128_lo_hi(col64b)[2]
        col64d == wrapping_add(ZeroExt(col64c, B128), ll_rh)
        col128b == u128_lo_hi(col64d)[2]
        ans128a == wrapping_add(lh_rh, ZeroExt(col128a, B128))
    IN  [lh_rl |-> lh_rl, ll_rh |-> ll_rh, lh_rh |-> lh_rh,
         col64a |-> col64a, col64b |-> col64b, col64c |-> col64c,
         col128a |-> col128a, col64d |-> col64d, col128b |-> col128b,
         ans128a |-> ans128a,
         ans128 |-> wrapping_add(ans128a, ZeroExt(col128b, B128))]

\* the intermediates of wide_mul_i128; ans128a is lh_rh.wrapping_add(col128a as i128)
wide_mul_i128_cols(lhs, rhs) ==
    LET ll == i128_lo_hi(lhs)[1]
        lh == i128_lo_hi(lhs)[2]
        rl == i128_lo_hi(rhs)[1]
        rh == i128_lo_hi(rhs)[2]
        ll_rl == mul_u64_u64(ll, rl)
        lh_rl == mul_u64_i64(rl, lh)
        ll_rh == mul_u64_i64(ll, rh)
        lh_rh == mul_i64_i64(lh, rh)
        col64a == u128_lo_hi(ll_rl)[2]
        col64b == wrapping_add(ZeroExt(col64a, B128), lh_rl)
        col64c == i128_lo_hi(col64b)[1]
        col128a == i128_lo_hi(col64b)[2]
        col64d == wrapping_add(ZeroExt(col64c, B128), ll_rh)
        col128b == i128_lo_hi(col64d)[2]
        ans128a == wrapping_add(lh_rh, SignExt(col128a, B128))
    IN  [lh_rl |-> lh_rl, ll_rh |-> ll_rh, lh_rh |-> lh_rh,
         col64a |-> col64a, col64b |-> col64b, col64c |-> col64c,
         col128a |-> col128a, col64d |-> col64d, col128b |-> col128b,
         ans128a |-> ans128a,
         ans128 |-> wrapping_add(ans128a, SignExt(col128b, B128))]

\* wide_mul_u128 losing the carry of the second addition into the middle column
wide_mul_u128_carry_lost(lhs, rhs) ==
    LET ll == u128_lo_hi(lhs)[1]
        lh == u128_lo_hi(lhs)[2]
        rl == u128_lo_hi(rhs)[1]
        rh == u128_lo_hi(rhs)[2]
        ll_rl == mul_u64_u64(ll, rl)
        lh_rl == mul_u64_u64(lh, rl)
        ll_rh == mul_u64_u64(ll, rh)
        lh_rh == mul_u64_u64(lh, rh)
        col0 == u128_lo_hi(ll_rl)[1]
        col64a == u128_lo_hi(ll_rl)[2]
        col64b == wrapping_add(ZeroExt(col64a, B128), lh_rl)
        col64c == u128_lo_hi(col64b)[1]
        col128a == u128_lo_hi(col64b)[2]
        col64d == wrapping_add(ZeroExt(col64c, B128), ll_rh)
        col64 == u128_lo_hi(col64d)[1]
        ans0 == BitOr(ZeroExt(col0, B128), Shl(ZeroExt(col64, B128), 64))
        ans128 == wrapping_add(lh_rh, ZeroExt(col128a, B128))
    IN  U256(ans0, ans128)

wide_mul_u128(lhs, rhs) ==
    LET ll == u128_lo_hi(lhs)[1]
        lh == u128_lo_hi(lhs)[2]
        rl == u128_lo_hi(rhs)[1]
        rh == u128_lo_hi(rhs)[2]
        ll_rl == mul_u64_u64(ll, rl)
        lh_rl == mul_u64_u64(lh, rl)
        ll_rh == mul_u64_u64(ll, rh)
        lh_rh == mul_u64_u64(lh, rh)
        col0 == u128_lo_hi(ll_rl)[1]
        col64a == u128_lo_hi(ll_rl)[2]
        col64b == wrapping_add(ZeroExt(col64a, B128), lh_rl)
        col64c == u128_lo_hi(col64b)[1]
        col128a == u128_lo_hi(col64b)[2]
        col64d == wrapping_add(ZeroExt(col64c, B128), ll_rh)
        col64 == u128_lo_hi(col64d)[1]
        col128b == u128_lo_hi(col64d)[2]
        ans0 == BitOr(ZeroExt(col0, B128), Shl(ZeroExt(col64, B128), 64))
        ans128 == wrapping_add(wrapping_add(lh_rh, ZeroExt(col128a, B128)),
                               ZeroExt(col128b, B128))
    IN  U256(ans0, ans128)

wide_mul_i128(lhs, rhs) ==
    LET ll == i128_lo_hi(lhs)[1]
        lh == i128_lo_hi(lhs)[2]
        rl == i128_lo_hi(rhs)[1]
        rh == i128_lo_hi(rhs)[2]
        ll_rl == mul_u64_u64(ll, rl)
        lh_rl == mul_u64_i64(rl, lh)
        ll_rh == mul_u64_i64(ll, rh)
        lh_rh == mul_i64_i64(lh, rh)
        col0 == u128_lo_hi(ll_rl)[1]
        col64a == u128_lo_hi(ll_rl)[2]
        col64b == wrapping_add(ZeroExt(col64a, B128), lh_rl)
        col64c == i128_lo_hi(col64b)[1]
        col128a == i128_lo_hi(col64b)[2]
        col64d == wrapping_add(ZeroExt(col64c, B128), ll_rh)
        col64 == i128_lo_hi(col64d)[1]
        col128b == i128_lo_hi(col64d)[2]
        ans0 == BitOr(ZeroExt(col0, B128), Shl(ZeroExt(col64, B128), 64))
        ans128 == wrapping_add(wrapping_add(lh_rh, SignExt(col128a, B128)),
                               SignExt(col128b, B128))
    IN  I256(ans0, ans128)

(***************************************************************************)
(* The full-width shifts (right shifts, whatever the name says).           *)
(***************************************************************************)
\* shl_u256_max_128 leaving the high limb unshifted
shl_u256_max_128_hi_kept(a, sh) ==
    IF sh = 0 THEN a
    ELSE IF sh = 128 THEN U256(a.hi, Small(0, B128))
    ELSE U256(BitOr(Shr(a.lo, sh), Shl(a.hi, 128 - sh)), a.hi)

shl_u256_max_128(a, sh) ==
    IF sh = 0 THEN a
    ELSE IF sh = 128 THEN U256(a.hi, Small(0, B128))
    ELSE U256(BitOr(Shr(a.lo, sh), Shl(a.hi, 128 - sh)), Shr(a.hi, sh))

\* shl_i256_max_128 shifting zeros into the high limb
shl_i256_max_128_zero_filled(a, sh) ==
    IF sh = 0 THEN a
    ELSE IF sh = 128 THEN I256(a.hi, Small(0, B128))
    ELSE I256(BitOr(Shr(a.lo, sh), Shl(a.hi, 128 - sh)), Shr(a.hi, sh))

shl_i256_max_128(a, sh) ==
    IF sh = 0 THEN a
    ELSE IF sh = 128 THEN I256(a.hi, Sar(a.hi, 127))
    ELSE I256(BitOr(Shr(a.lo, sh), Shl(a.hi, 128 - sh)), Sar(a.hi, sh))

(***************************************************************************)
(* The narrowing division.                                                 *)
(***************************************************************************)
\* div_half_u128 that lowers the quotient estimate once at most
div_half_u128_one_fix(r, d, next_half) ==
    LET dl == u128_lo_hi(d)[1]
        dh == u128_lo_hi(d)[2]
    IN  Let(UDivRem(r, ZeroExt(dh, B128)), LAMBDA q_rr :
        LET q0 == q_rr[1]
            rr == q_rr[2]
            q1 == wrapping_sub(q0, Small(1, B128))
        IN  Let(wrapping_mul(q0, ZeroExt(dl, B128)), LAMBDA m :
            Let(wrapping_add(ZeroExt(next_half, B128), Shl(rr, 64)), LAMBDA r0 :
            IF ULt(r0, m)
            THEN Let(overflowing_add(r0, d), LAMBDA new_r :
             <<wrapping_sub(new_r[1], m), q1>>)
            ELSE <<wrapping_sub(r0, m), q0>>)))

\* The initial estimate of div_half_u128 and what the division leaves:
\* (r / (dh as u128), r % (dh as u128))
div_half_u128_estimate(r, d) == UDivRem(r, ZeroExt(u128_lo_hi(d)[2], B128))

\* the operands of div_half_u128 with r, not rr, shifted into the high half
div_half_u128_unchecked_r_shifted(r, d, next_half) ==
    LET dl == u128_lo_hi(d)[1]
    IN  Let(div_half_u128_estimate(r, d), LAMBDA q_rr :
        LET q0 == q_rr[1]
            q1 == wrapping_sub(q0, Small(1, B128))
        IN  Let(wrapping_mul(q0, ZeroExt(dl, B128)), LAMBDA m :
            Let(wrapping_add(ZeroExt(next_half, B128), Shl(r, 64)), LAMBDA r0 :
            Let(overflowing_add(r0, d), LAMBDA new_r :
            [q |-> q0, dl |-> ZeroExt(dl, B128), m |-> m,
             next_half |-> ZeroExt(next_half, B128), rr |-> r, r |-> r0,
             decremented |->
                 IF ~ULt(r0, m) THEN <<>>
                 ELSE IF ~new_r[2] /\ ULt(new_r[1], m) THEN <<q0, q1>>
                 ELSE <<q0>>]))))

\* The operands and results of the arithmetic div_half_u128 writes with plain
\* operators: q * (dl as u128) = m, (next_half as u128) + (rr << 64) = r, and the
\* values of q at each q -= 1 that is executed, in order.
div_half_u128_unchecked(r, d, next_half) ==
    LET dl == u128_lo_hi(d)[1]
    IN  Let(div_half_u128_estimate(r, d), LAMBDA q_rr :
        LET q0 == q_rr[1]
            rr == q_rr[2]
            q1 == wrapping_sub(q0, Small(1, B128))
        IN  Let(wrapping_mul(q0, ZeroExt(dl, B128)), LAMBDA m :
            Let(wrapping_add(ZeroExt(next_half, B128), Shl(rr, 64)), LAMBDA r0 :
            Let(overflowing_add(r0, d), LAMBDA new_r :
            [q |-> q0, dl |-> ZeroExt(dl, B128), m |-> m,
             next_half |-> ZeroExt(next_half, B128), rr |-> rr, r |-> r0,
             decremented |->
                 IF ~ULt(r0, m) THEN <<>>
                 ELSE IF ~new_r[2] /\ ULt(new_r[1], m) THEN <<q0, q1>>
                 ELSE <<q0>>]))))

\* div_half_u128 making the second correction whether or not r + d overflowed
div_half_u128_overflow_ignored(r, d, next_half) ==
    LET dl == u128_lo_hi(d)[1]
        dh == u128_lo_hi(d)[2]
    IN  Let(UDivRem(r, ZeroExt(dh, B128)), LAMBDA q_rr :
        LET q0 == q_rr[1]
            rr == q_rr[2]
            q1 == wrapping_sub(q0, Small(1, B128))
            q2 == wrapping_sub(q1, Small(1, B128))
        IN  Let(wrapping_mul(q0, ZeroExt(dl, B128)), LAMBDA m :
            Let(wrapping_add(ZeroExt(next_half, B128), Shl(rr, 64)), LAMBDA r0 :
            IF ULt(r0, m)
            THEN Let(overflowing_add(r0, d), LAMBDA new_r :
             IF ULt(new_r[1], m)
             THEN <<wrapping_sub(wrapping_add(new_r[1], d), m), q2>>
             ELSE <<wrapping_sub(new_r[1], m), q1>>)
            ELSE <<wrapping_sub(r0, m), q0>>)))

\* div_half_u128 that decrements q the second time without adding d again
div_half_u128_no_second_add(r, d, next_half) ==
    LET dl == u128_lo_hi(d)[1]
        dh == u128_lo_hi(d)[2]
    IN  Let(div_half_u128_estimate(r, d), LAMBDA q_rr :
        LET q0 == q_rr[1]
            rr == q_rr[2]
            q1 == wrapping_sub(q0, Small(1, B128))
            q2 == wrapping_sub(q1, Small(1, B128))
        IN  Let(wrapping_mul(q0, ZeroExt(dl, B128)), LAMBDA m :
            Let(wrapping_add(ZeroExt(next_half, B128), Shl(rr, 64)), LAMBDA r0 :
            IF ULt(r0, m)
            THEN Let(overflowing_add(r0, d), LAMBDA new_r :
             IF ~new_r[2] /\ ULt(new_r[1], m)
             THEN <<wrapping_sub(new_r[1], m), q2>>
             ELSE <<wrapping_sub(new_r[1], m), q1>>)
            ELSE <<wrapping_sub(r0, m), q0>>)))

\* One half-limb step: <<the new remainder, the 64 quotient bits>>.  The
\* arithmetic written with plain operators (q * dl, next_half + (rr << 64),
\* q -= 1) is given its wrapped result here.
div_half_u128(r, d, next_half) ==
    LET dl == u128_lo_hi(d)[1]
        dh == u128_lo_hi(d)[2]
    IN  Let(div_half_u128_estimate(r, d), LAMBDA q_rr :
        LET q0 == q_rr[1]
            rr == q_rr[2]
            q1 == wrapping_sub(q0, Small(1, B128))
            q2 == wrapping_sub(q1, Small(1, B128))
        IN  Let(wrapping_mul(q0, ZeroExt(dl, B128)), LAMBDA m :
            Let(wrapping_add(ZeroExt(next_half, B128), Shl(rr, 64)), LAMBDA r0 :
            IF ULt(r0, m)
            THEN Let(overflowing_add(r0, d), LAMBDA new_r :
             IF ~new_r[2] /\ ULt(new_r[1], m)
             THEN <<wrapping_sub(wrapping_add(new_r[1], d), m), q2>>
             ELSE <<wrapping_sub(new_r[1], m), q1>>)
            ELSE <<wrapping_sub(r0, m), q0>>)))

\* div_rem_u256_u128 starting from the remainder 0: the bits of n.hi that the
\* normalization shifts out are forgotten
div_rem_u256_u128_top_lost(n, d) ==
    LET zeros == leading_zeros(d)
        r0 == Small(0, B128)
        n_hi == IF zeros = 0 THEN n.hi
                ELSE BitOr(Shl(n.hi, zeros), Shr(n.lo, 128 - zeros))
        n_lo == IF zeros = 0 THEN n.lo ELSE Shl(n.lo, zeros)
        dn == IF zeros = 0 THEN d ELSE Shl(d, zeros)
        nhl == u128_lo_hi(n_hi)[1]
        nhh == u128_lo_hi(n_hi)[2]
        nll == u128_lo_hi(n_lo)[1]
        nlh == u128_lo_hi(n_lo)[2]
    IN  Let(div_half_u128(r0, dn, nhh), LAMBDA r_qhh :
        Let(div_half_u128(r_qhh[1], dn, nhl), LAMBDA r_qhl :
        Let(div_half_u128(r_qhl[1], dn, nlh), LAMBDA r_qlh :
        Let(div_half_u128(r_qlh[1], dn, nll), LAMBDA r_qll :
        <<U256(wrapping_add(r_qll[2], Shl(r_qlh[2], 64)),
               wrapping_add(r_qhl[2], Shl(r_qhh[2], 64))),
          Shr(r_qll[1], zeros)>>))))

\* The hint of div_half_u128, assert_unchecked(dh != 0): the high half of the
\* divisor is not zero.
div_half_u128_hint(d) == ~IsZero(u128_lo_hi(d)[2])

\* the divisor of div_rem_u256_u128 shifted left by one bit less than its
\* leading zeros
div_rem_u256_u128_d_short(d) ==
    LET zeros == leading_zeros(d)
    IN  IF zeros = 0 THEN d ELSE Shl(d, zeros - 1)

\* the divisor div_rem_u256_u128 divides by: d shifted left by its leading zeros
div_rem_u256_u128_d(d) ==
    LET zeros == leading_zeros(d)
    IN  IF zeros = 0 THEN d ELSE Shl(d, zeros)

div_rem_u256_u128(n, d) ==
    LET zeros == leading_zeros(d)
        r0 == IF zeros = 0 THEN Small(0, B128) ELSE Shr(n.hi, 128 - zeros)
        n_hi == IF zeros = 0 THEN n.hi
                ELSE BitOr(Shl(n.hi, zeros), Shr(n.lo, 128 - zeros))
        n_lo == IF zeros = 0 THEN n.lo ELSE Shl(n.lo, zeros)
        dn == div_rem_u256_u128_d(d)
        nhl == u128_lo_hi(n_hi)[1]
        nhh == u128_lo_hi(n_hi)[2]
        nll == u128_lo_hi(n_lo)[1]
        nlh == u128_lo_hi(n_lo)[2]
    IN  Let(div_half_u128(r0, dn, nhh), LAMBDA r_qhh :
        Let(div_half_u128(r_qhh[1], dn, nhl), LAMBDA r_qhl :
        Let(div_half_u128(r_qhl[1], dn, nlh), LAMBDA r_qlh :
        Let(div_half_u128(r_qlh[1], dn, nll), LAMBDA r_qll :
        <<U256(wrapping_add(r_qll[2], Shl(r_qlh[2], 64)),
               wrapping_add(r_qhl[2], Shl(r_qhh[2], 64))),
          Shr(r_qll[1], zeros)>>))))

\* the calls of div_rem_u256_u128 when the bits shifted out of n.lo are not put
\* into n.hi
div_rem_u256_u128_calls_lo_bits_lost(n, d) ==
    LET zeros == leading_zeros(d)
        r0 == IF zeros = 0 THEN Small(0, B128) ELSE Shr(n.hi, 128 - zeros)
        n_hi == IF zeros = 0 THEN n.hi ELSE Shl(n.hi, zeros)
        n_lo == IF zeros = 0 THEN n.lo ELSE Shl(n.lo, zeros)
        dn == div_rem_u256_u128_d(d)
        nhl == u128_lo_hi(n_hi)[1]
        nhh == u128_lo_hi(n_hi)[2]
        nll == u128_lo_hi(n_lo)[1]
        nlh == u128_lo_hi(n_lo)[2]
    IN  Let(div_half_u128(r0, dn, nhh), LAMBDA r_qhh :
        Let(div_half_u128(r_qhh[1], dn, nhl), LAMBDA r_qhl :
        Let(div_half_u128(r_qhl[1], dn, nlh), LAMBDA r_qlh :
        << <<r0, dn, nhh>>, <<r_qhh[1], dn, nhl>>,
           <<r_qhl[1], dn, nlh>>, <<r_qlh[1], dn, nll>> >>)))

\* the arguments (r, d, next_half) of the four calls of div_half_u128 that
\* div_rem_u256_u128 makes, in the order of the calls
div_rem_u256_u128_calls(n, d) ==
    LET zeros == leading_zeros(d)
        r0 == IF zeros = 0 THEN Small(0, B128) ELSE Shr(n.hi, 128 - zeros)
        n_hi == IF zeros = 0 THEN n.hi
                ELSE BitOr(Shl(n.hi, zeros), Shr(n.lo, 128 - zeros))
        n_lo == IF zeros = 0 THEN n.lo ELSE Shl(n.lo, zeros)
        dn == div_rem_u256_u128_d(d)
        nhl == u128_lo_hi(n_hi)[1]
        nhh == u128_lo_hi(n_hi)[2]
        nll == u128_lo_hi(n_lo)[1]
        nlh == u128_lo_hi(n_lo)[2]
    IN  Let(div_half_u128(r0, dn, nhh), LAMBDA r_qhh :
        Let(div_half_u128(r_qhh[1], dn, nhl), LAMBDA r_qhl :
        Let(div_half_u128(r_qhl[1], dn, nlh), LAMBDA r_qlh :
        << <<r0, dn, nhh>>, <<r_qhh[1], dn, nhl>>,
           <<r_qhl[1], dn, nlh>>, <<r_qlh[1], dn, nll>> >>)))

\* div_rem_i256_i128_no_overflow negating the quotient limb by limb, without the
\* borrow of the low limb
div_rem_i256_i128_borrow_lost(n, d) ==
    LET n_neg == is_negative(n.hi)
        n_abs == IF n_neg
                 THEN LET nl == overflowing_neg(n.lo)
                      IN  U256(nl[1],
                               wrapping_sub(wrapping_neg(n.hi), bool_as(nl[2], B128)))
                 ELSE U256(n.lo, n.hi)
        d_neg == is_negative(d)
        d_abs == IF d_neg THEN wrapping_neg(d) ELSE d
    IN  Let(div_rem_u256_u128(n_abs, d_abs), LAMBDA qr :
        LET q_abs == qr[1]
            r_abs == qr[2]
            q == IF n_neg = d_neg
                 THEN I256(q_abs.lo, q_abs.hi)
                 ELSE I256(wrapping_neg(q_abs.lo), wrapping_neg(q_abs.hi))
            r == IF n_neg THEN wrapping_neg(r_abs) ELSE r_abs
        IN  <<q, r>>)

\* div_rem_i256_i128_no_overflow returning the remainder of the magnitudes
div_rem_i256_i128_rem_unsigned(n, d) ==
    LET n_neg == is_negative(n.hi)
        n_abs == IF n_neg
                 THEN LET nl == overflowing_neg(n.lo)
                      IN  U256(nl[1],
                               wrapping_sub(wrapping_neg(n.hi), bool_as(nl[2], B128)))
                 ELSE U256(n.lo, n.hi)
        d_neg == is_negative(d)
        d_abs == IF d_neg THEN wrapping_neg(d) ELSE d
    IN  Let(div_rem_u256_u128(n_abs, d_abs), LAMBDA qr :
        LET q_abs == qr[1]
            r_abs == qr[2]
            q == IF n_neg = d_neg
                 THEN I256(q_abs.lo, q_abs.hi)
                 ELSE LET ql == overflowing_neg(q_abs.lo)
                      IN  I256(ql[1],
                               wrapping_sub(wrapping_neg(q_abs.hi), bool_as(ql[2], B128)))
            r == r_abs
        IN  <<q, r>>)

\* div_rem_i256_i128_no_overflow returning the quotient of the magnitudes
div_rem_i256_i128_quot_unsigned(n, d) ==
    LET n_neg == is_negative(n.hi)
        n_abs == IF n_neg
                 THEN LET nl == overflowing_neg(n.lo)
                      IN  U256(nl[1],
                               wrapping_sub(wrapping_neg(n.hi), bool_as(nl[2], B128)))
                 ELSE U256(n.lo, n.hi)
        d_neg == is_negative(d)
        d_abs == IF d_neg THEN wrapping_neg(d) ELSE d
    IN  Let(div_rem_u256_u128(n_abs, d_abs), LAMBDA qr :
        LET q_abs == qr[1]
            r_abs == qr[2]
            q == I256(q_abs.lo, q_abs.hi)
            r == IF n_neg THEN wrapping_neg(r_abs) ELSE r_abs
        IN  <<q, r>>)

\* div_rem_i256_i128_no_overflow dividing by d as u128 in place of its absolute value
div_rem_i256_i128_d_unsigned(n, d) ==
    LET n_neg == is_negative(n.hi)
        n_abs == IF n_neg
                 THEN LET nl == overflowing_neg(n.lo)
                      IN  U256(nl[1],
                               wrapping_sub(wrapping_neg(n.hi), bool_as(nl[2], B128)))
                 ELSE U256(n.lo, n.hi)
        d_neg == is_negative(d)
        d_abs == d
    IN  Let(div_rem_u256_u128(n_abs, d_abs), LAMBDA qr :
        LET q_abs == qr[1]
            r_abs == qr[2]
            q == IF n_neg = d_neg
                 THEN I256(q_abs.lo, q_abs.hi)
                 ELSE LET ql == overflowing_neg(q_abs.lo)
                      IN  I256(ql[1],
                               wrapping_sub(wrapping_neg(q_abs.hi), bool_as(ql[2], B128)))
            r == IF n_neg THEN wrapping_neg(r_abs) ELSE r_abs
        IN  <<q, r>>)

div_rem_i256_i128_no_overflow(n, d) ==
    LET n_neg == is_negative(n.hi)
        n_abs == IF n_neg
                 THEN LET nl == overflowing_neg(n.lo)
                      IN  U256(nl[1],
                               wrapping_sub(wrapping_neg(n.hi), bool_as(nl[2], B128)))
                 ELSE U256(n.lo, n.hi)
        d_neg == is_negative(d)
        d_abs == IF d_neg THEN wrapping_neg(d) ELSE d
    IN  Let(div_rem_u256_u128(n_abs, d_abs), LAMBDA qr :
        LET q_abs == qr[1]
            r_abs == qr[2]
            q == IF n_neg = d_neg
                 THEN I256(q_abs.lo, q_abs.hi)
                 ELSE LET ql == overflowing_neg(q_abs.lo)
                      IN  I256(ql[1],
                               wrapping_sub(wrapping_neg(q_abs.hi), bool_as(ql[2], B128)))
            r == IF n_neg THEN wrapping_neg(r_abs) ELSE r_abs
        IN  <<q, r>>)

(***************************************************************************)
(* The narrowing shifts with an overflow flag.                             *)
(***************************************************************************)
\* overflowing_shl_u256_into_u128 flagging every non-zero high limb
overflowing_shl_u256_into_u128_hi_flag(a, sh) ==
    IF sh = 128 THEN <<a.hi, ~IsZero(a.hi)>>
    ELSE IF sh = 0 THEN <<a.lo, ~IsZero(a.hi)>>
    ELSE LET lo == Shr(a.lo, sh)
             hi == Shl(a.hi, 128 - sh)
         IN  <<BitOr(lo, hi), ~IsZero(a.hi)>>

overflowing_shl_u256_into_u128(a, sh) ==
    IF sh = 128 THEN <<a.hi, FALSE>>
    ELSE IF sh = 0 THEN <<a.lo, ~IsZero(a.hi)>>
    ELSE LET lo == Shr(a.lo, sh)
             hi == Shl(a.hi, 128 - sh)
         IN  <<BitOr(lo, hi), ~IsZero(Shr(a.hi, sh))>>

\* overflowing_shl_i256_into_i128 with the flag of the unsigned shift
overflowing_shl_i256_into_i128_zero_flag(a, sh) ==
    IF sh = 128 THEN <<a.hi, FALSE>>
    ELSE IF sh = 0 THEN <<a.lo, ~IsZero(a.hi)>>
    ELSE LET lo == Shr(a.lo, sh)
             hi == Shl(a.hi, 128 - sh)
             ans == BitOr(lo, hi)
         IN  <<ans, ~IsZero(Sar(a.hi, sh))>>

\* overflowing_shl_i256_into_i128 comparing the shifted high limb with the sign
\* of the input, not with the sign of the value returned
overflowing_shl_i256_into_i128_sign_of_input(a, sh) ==
    IF sh = 128 THEN <<a.hi, FALSE>>
    ELSE IF sh = 0 THEN <<a.lo, a.hi # Sar(a.hi, 127)>>
    ELSE LET lo == Shr(a.lo, sh)
             hi == Shl(a.hi, 128 - sh)
             ans == BitOr(lo, hi)
         IN  <<ans, Sar(a.hi, sh) # Sar(a.hi, 127)>>

overflowing_shl_i256_into_i128(a, sh) ==
    IF sh = 128 THEN <<a.hi, FALSE>>
    ELSE IF sh = 0 THEN <<a.lo, a.hi # Sar(a.lo, 127)>>
    ELSE LET lo == Shr(a.lo, sh)
             hi == Shl(a.hi, 128 - sh)
             ans == BitOr(lo, hi)
         IN  <<ans, Sar(a.hi, sh) # Sar(ans, 127)>>

(***************************************************************************)
(* The amounts of the primitive 128-bit shifts each function executes, by  *)
(* the branch it takes.                                                    *)
(***************************************************************************)
\* shl_u256_max_128 without the branch for sh == 128
shl_u256_max_128_shifts_unbranched(a, sh) ==
    IF sh = 0 THEN {} ELSE {sh, 128 - sh}

\* a.lo >> sh, a.hi << (128 - sh), a.hi >> sh
shl_u256_max_128_shifts(a, sh) ==
    IF sh = 0 THEN {}
    ELSE IF sh = 128 THEN {}
    ELSE {sh, 128 - sh}

\* a.hi >> 127 for sh == 128; a.lo >> sh, a.hi << (128 - sh), a.hi >> sh
shl_i256_max_128_shifts(a, sh) ==
    IF sh = 0 THEN {}
    ELSE IF sh = 128 THEN {127}
    ELSE {sh, 128 - sh}

overflowing_shl_u256_into_u128_shifts(a, sh) ==
    IF sh = 128 THEN {}
    ELSE IF sh = 0 THEN {}
    ELSE {sh, 128 - sh}

\* ans >> 127 in the branches that compare with the sign of ans
overflowing_shl_i256_into_i128_shifts(a, sh) ==
    IF sh = 128 THEN {}
    ELSE IF sh = 0 THEN {127}
    ELSE {sh, 128 - sh, 127}

\* n.hi >> (128 - zeros), n.hi << zeros, n.lo >> (128 - zeros), n.lo <<= zeros and
\* d.get() << zeros when zeros is not 0; then u >> 64 of u128_lo_hi, rr << 64 of
\* div_half_u128, qlh << 64, qhh << 64 and r >>= zeros
div_rem_u256_u128_shifts(n, d) ==
    LET zeros == leading_zeros(d)
    IN  (IF zeros = 0 THEN {} ELSE {128 - zeros, zeros}) \cup {64, zeros}

\* A primitive shift whose amount is not below the width of the shifted type.
\* The amount 128 - sh is a u32: below 0 it has overflowed itself, and wraps to
\* 2^32 + 128 - sh, an amount far above the width.
ShiftOverflows(a, k) == k < 0 \/ k >= Bits(a)

\* The arithmetic of the last branch of the narrowing shifts overflows: a.lo >> sh
\* or a.hi >> sh shifts by the width or more, 128 - sh is below 0, or
\* a.hi << (128 - sh) shifts by the width or more.
overflowing_shl_u256_into_u128_overflow(a, sh) ==
    /\ sh # 128
    /\ sh # 0
    /\ \/ ShiftOverflows(a.lo, sh)
       \/ 128 - sh < 0
       \/ ShiftOverflows(a.hi, 128 - sh)
       \/ ShiftOverflows(a.hi, sh)

overflowing_shl_i256_into_i128_overflow(a, sh) ==
    /\ sh # 128
    /\ sh # 0
    /\ \/ ShiftOverflows(a.lo, sh)
       \/ 128 - sh < 0
       \/ ShiftOverflows(a.hi, 128 - sh)
       \/ ShiftOverflows(a.hi, sh)

\* the call did not return: it panicked
Panic == <<"panic">>

\* What a call of a narrowing shift can give.  Where its arithmetic overflows
\* the outcome depends on the build: with overflow checks the call panics,
\* without them the amounts are masked to the width and the call returns.
overflowing_shl_u256_into_u128_outcomes(a, sh) ==
    {overflowing_shl_u256_into_u128(a, sh)}
        \cup (IF overflowing_shl_u256_into_u128_overflow(a, sh) THEN {Panic} ELSE {})

overflowing_shl_i256_into_i128_outcomes(a, sh) ==
    {overflowing_shl_i256_into_i128(a, sh)}
        \cup (IF overflowing_shl_i256_into_i128_overflow(a, sh) THEN {Panic} ELSE {})

(***************************************************************************)
(* The inputs.  Every 128-bit argument is one of the sample words: the     *)
(* first NumSamples words of the list below.  Shift counts are the         *)
(* counts 0..=128 the shift helpers are specified for.                     *)
(***************************************************************************)
NumSamples == 8

SampleWord(i) ==
    CASE i = 1 -> Small(0, B128)                                       \* 0
      [] i = 2 -> Small(1, B128)                                       \* 1
      [] i = 3 -> AllOnes(B128)                                        \* u128::MAX, -1
      [] i = 4 -> Pow2(127, B128)                                      \* 2^127, i128::MIN
      [] i = 5 -> BitOr(Pow2(127, B128), Small(1, B128))               \* 2^127 + 1
      [] i = 6 -> Small(255, B128)                                     \* 0xFF
      [] i = 7 -> BitOr(Pow2(127, B128), ZeroExt(AllOnes(B64), B128))  \* 2^127 + 2^64 - 1
      [] i = 8 -> Shr(AllOnes(B128), 1)                                \* 2^127 - 1, i128::MAX
      [] i = 9 -> Pow2(64, B128)                                       \* 2^64
      [] OTHER -> BitOr(Shl(Small(i, B128), 120), Small(1, B128))      \* (i << 120) | 1

Words == {SampleWord(i) : i \in 1..NumSamples}

NonZeroWords == {w \in Words : ~IsZero(w)}

Wides == [lo : Words, hi : Words]

(***************************************************************************)
(* The calls.  A behaviour is one call of one kernel function: the initial *)
(* state holds the function and its arguments, the action of the function  *)
(* runs it and stores what it returns.                                     *)
(***************************************************************************)
Returns(f, v) ==
    /\ fn = f
    /\ pc = "call"
    /\ pc' = "return"
    /\ out' = v
    /\ UNCHANGED <<fn, args>>

WideMulU128 == Returns("wide_mul_u128", wide_mul_u128(args.lhs, args.rhs))

WideMulI128 == Returns("wide_mul_i128", wide_mul_i128(args.lhs, args.rhs))

InitMul ==
    /\ fn \in {"wide_mul_u128", "wide_mul_i128"}
    /\ args \in [lhs : Words, rhs : Words]
    /\ pc = "call"
    /\ out = NoValue

NextMul == WideMulU128 \/ WideMulI128

SpecMul == InitMul /\ [][NextMul]_vars

DivRemU256U128 == Returns("div_rem_u256_u128", div_rem_u256_u128(args.n, args.d))

DivRemI256I128NoOverflow ==
    Returns("div_rem_i256_i128_no_overflow",
            div_rem_i256_i128_no_overflow(args.n, args.d))

InitDiv ==
    /\ fn \in {"div_rem_u256_u128", "div_rem_i256_i128_no_overflow"}
    /\ args \in [n : Wides, d : NonZeroWords]
    /\ pc = "call"
    /\ out = NoValue

NextDiv == DivRemU256U128 \/ DivRemI256I128NoOverflow

SpecDiv == InitDiv /\ [][NextDiv]_vars

ShlU256Max128 == Returns("shl_u256_max_128", shl_u256_max_128(args.a, args.sh))

ShlI256Max128 == Returns("shl_i256_max_128", shl_i256_max_128(args.a, args.sh))

OverflowingShlU256IntoU128 ==
    /\ fn = "overflowing_shl_u256_into_u128"
    /\ \E v \in overflowing_shl_u256_into_u128_outcomes(args.a, args.sh) :
           Returns("overflowing_shl_u256_into_u128", v)

OverflowingShlI256IntoI128 ==
    /\ fn = "overflowing_shl_i256_into_i128"
    /\ \E v \in overflowing_shl_i256_into_i128_outcomes(args.a, args.sh) :
           Returns("overflowing_shl_i256_into_i128", v)

\* the shift counts the shift helpers are specified for
ShiftCounts == 0..128

InitShift ==
    /\ fn \in {"shl_u256_max_128", "shl_i256_max_128",
               "overflowing_shl_u256_into_u128", "overflowing_shl_i256_into_i128"}
    /\ args \in [a : Wides, sh : ShiftCounts]
    /\ pc = "call"
    /\ out = NoValue

NextShift ==
    \/ ShlU256Max128
    \/ ShlI256Max128
    \/ OverflowingShlU256IntoU128
    \/ OverflowingShlI256IntoI128

SpecShift == InitShift /\ [][NextShift]_vars

DivHalfU128 ==
    Returns("div_half_u128", div_half_u128(args.r, args.d, args.next_half))

\* the halves of the sample words, as next_half
HalfWords == {u128_lo_hi(w)[1] : w \in Words} \cup {u128_lo_hi(w)[2] : w \in Words}

\* div_half_u128 called as its safety contract and div_rem_u256_u128 call it:
\* d has its most significant bit set, and the running remainder r is below d:
\* the sample words below d and the words a sample word below d, d - 1 the
\* largest
InitDivHalf ==
    /\ fn = "div_half_u128"
    /\ \E d \in {w \in Words : is_negative(w)} :
           args \in [r : {r \in Words \cup {wrapping_sub(d, w) : w \in NonZeroWords} :
                              ULt(r, d)},
                     d : {d},
                     next_half : HalfWords]
    /\ pc = "call"
    /\ out = NoValue

NextDivHalf == DivHalfU128

SpecDivHalf == InitDivHalf /\ [][NextDivHalf]_vars

MulU64I64 == Returns("mul_u64_i64", mul_u64_i64(args.a, args.b))

\* 64-bit operands: the halves of the sample words, their complements and
\* their successors
HalfSamples ==
    HalfWords \cup {BitNot(h) : h \in HalfWords}
              \cup {wrapping_add(h, Small(1, B64)) : h \in HalfWords}

InitMulHalf ==
    /\ fn = "mul_u64_i64"
    /\ args \in [a : HalfSamples, b : HalfSamples]
    /\ pc = "call"
    /\ out = NoValue

NextMulHalf == MulU64I64

SpecMulHalf == InitMulHalf /\ [][NextMulHalf]_vars

\* Multiplication undone by division: a * b + c built by wide_mul_u128 and
\* wrapping_add_u256_u128, then divided by b.  out is the value of each step.
MulDivMultiply ==
    /\ fn = "mul_add_div"
    /\ pc = "call"
    /\ pc' = "multiplied"
    /\ out' = wide_mul_u128(args.a, args.b)
    /\ UNCHANGED <<fn, args>>

MulDivAdd ==
    /\ fn = "mul_add_div"
    /\ pc = "multiplied"
    /\ pc' = "added"
    /\ out' = wrapping_add_u256_u128(out, args.c)
    /\ UNCHANGED <<fn, args>>

MulDivDivide ==
    /\ fn = "mul_add_div"
    /\ pc = "added"
    /\ pc' = "return"
    /\ out' = div_rem_u256_u128(out, args.b)
    /\ UNCHANGED <<fn, args>>

InitMulDiv ==
    /\ fn = "mul_add_div"
    /\ \E b \in NonZeroWords :
           args \in [a : Words, b : {b}, c : {c \in Words : ULt(c, b)}]
    /\ pc = "call"
    /\ out = NoValue

NextMulDiv == MulDivMultiply \/ MulDivAdd \/ MulDivDivide

SpecMulDiv == InitMulDiv /\ [][NextMulDiv]_vars

\* the half-limb steps, called alone and called by div_rem_u256_u128
InitDivSteps ==
    \/ InitDivHalf
    \/ /\ fn = "div_rem_u256_u128"
       /\ args \in [n : Wides, d : NonZeroWords]
       /\ pc = "call"
       /\ out = NoValue

NextDivSteps == DivHalfU128 \/ DivRemU256U128

SpecDivSteps == InitDivSteps /\ [][NextDivSteps]_vars

\* shift counts of the type u32 above the 128 the helpers are specified for
LargeShiftCounts == {129, 130, 191, 192, 255, 256, 257, 384}

\* the narrowing shifts called with any shift count
InitNarrowingShift ==
    /\ fn \in {"overflowing_shl_u256_into_u128", "overflowing_shl_i256_into_i128"}
    /\ args \in [a : Wides, sh : ShiftCounts \cup LargeShiftCounts]
    /\ pc = "call"
    /\ out = NoValue

NextNarrowingShift == OverflowingShlU256IntoU128 \/ OverflowingShlI256IntoI128

SpecNarrowingShift == InitNarrowingShift /\ [][NextNarrowingShift]_vars

U256WrappingAsI256 == Returns("u256_wrapping_as_i256", u256_wrapping_as_i256(args.a))

WrappingAddU256U128 ==
    Returns("wrapping_add_u256_u128", wrapping_add_u256_u128(args.a, args.b))

OverflowingAddU128U256 ==
    Returns("overflowing_add_u128_u256", overflowing_add_u128_u256(args.a, args.b))

OverflowingSubU128U256 ==
    Returns("overflowing_sub_u128_u256", overflowing_sub_u128_u256(args.a, args.b))

WrappingNegU256 == Returns("wrapping_neg_u256", wrapping_neg_u256(args.a))

OverflowingAddI256I128 ==
    Returns("overflowing_add_i256_i128", overflowing_add_i256_i128(args.a, args.b))

OverflowingAddU256 ==
    Returns("overflowing_add_u256", overflowing_add_u256(args.a, args.b))

WrappingSubU256 == Returns("wrapping_sub_u256", wrapping_sub_u256(args.a, args.b))

InitAdd ==
    /\ \/ /\ fn \in {"u256_wrapping_as_i256", "wrapping_neg_u256"}
          /\ args \in [a : Wides]
       \/ /\ fn \in {"wrapping_add_u256_u128", "overflowing_add_i256_i128"}
          /\ args \in [a : Wides, b : Words]
       \/ /\ fn \in {"overflowing_add_u128_u256", "overflowing_sub_u128_u256"}
          /\ args \in [a : Words, b : Wides]
       \/ /\ fn \in {"overflowing_add_u256", "wrapping_sub_u256"}
          /\ args \in [a : Wides, b : Wides]
    /\ pc = "call"
    /\ out = NoValue

NextAdd ==
    \/ U256WrappingAsI256
    \/ WrappingAddU256U128
    \/ OverflowingAddU128U256
    \/ OverflowingSubU128U256
    \/ WrappingNegU256
    \/ OverflowingAddI256I128
    \/ OverflowingAddU256
    \/ WrappingSubU256

SpecAdd == InitAdd /\ [][NextAdd]_vars

Init == InitMul \/ InitDiv \/ InitShift \/ InitAdd

Next == NextMul \/ NextDiv \/ NextShift \/ NextAdd

Spec == Init /\ [][Next]_vars

\* the kernel called with every argument its types admit: the narrowing shifts
\* take a u32, and are also called with shift counts above 128
InitKernel == Init \/ InitNarrowingShift

SpecKernel == InitKernel /\ [][Next]_vars

\* the call of f has returned
Returned(f) == fn = f /\ pc = "return"

(***************************************************************************)
(* Saturating<F>: the wrapper whose operators apply the saturating methods *)
(* of the fixed-point type F.  A value of F is its bit pattern, a word of  *)
(* the width of F, read as signed or unsigned; the number it stands for is *)
(* that integer in units of F::DELTA, so sums and differences of F are     *)
(* sums and differences of the integers.                                   *)
(***************************************************************************)
\* a value of a fixed-point type: signedness and bit pattern
Fixed(signed, bits) == [signed |-> signed, bits |-> bits]

\* F::MAX, F::MIN and F::DELTA of the type of f: f with its bits replaced
FixedMAX(f) ==
    [f EXCEPT !.bits = IF f.signed THEN BitNot(Pow2(Bits(f.bits) - 1, Len(f.bits)))
                       ELSE AllOnes(Len(f.bits))]

FixedMIN(f) ==
    [f EXCEPT !.bits = IF f.signed THEN Pow2(Bits(f.bits) - 1, Len(f.bits))
                       ELSE Small(0, Len(f.bits))]

FixedDELTA(f) == [f EXCEPT !.bits = Small(1, Len(f.bits))]

\* F::saturating_add: the policy applied to the wrapped sum of the bits and its
\* overflow flag: clamp to the extreme on the side of the overflow
saturating_add(a, b) ==
    IF a.signed
    THEN LET r == overflowing_add_signed(a.bits, b.bits)
         IN  IF ~r[2] THEN [a EXCEPT !.bits = r[1]]
             ELSE IF is_negative(b.bits) THEN FixedMIN(a) ELSE FixedMAX(a)
    ELSE LET r == overflowing_add(a.bits, b.bits)
         IN  IF r[2] THEN FixedMAX(a) ELSE [a EXCEPT !.bits = r[1]]

\* F::saturating_sub
saturating_sub(a, b) ==
    IF a.signed
    THEN LET w == wrapping_sub(a.bits, b.bits)
             overflow == /\ is_negative(a.bits) # is_negative(b.bits)
                         /\ is_negative(w) # is_negative(a.bits)
         IN  IF ~overflow THEN [a EXCEPT !.bits = w]
             ELSE IF is_negative(b.bits) THEN FixedMAX(a) ELSE FixedMIN(a)
    ELSE LET r == overflowing_sub(a.bits, b.bits)
         IN  IF r[2] THEN FixedMIN(a) ELSE [a EXCEPT !.bits = r[1]]

\* pub struct Saturating<F>(pub F): field 0 is component 1
Saturating(f) == <<f>>

\* add of a wrapper that applies the wrapping method
add_wrapping(self, other) ==
    Saturating(Fixed(self[1].signed, wrapping_add(self[1].bits, other[1].bits)))

\* op! { saturating_add, Add add, AddAssign add_assign }:
\* fn add(self, other: Saturating<F>) -> Saturating<F>, the same body for
\* operands by value and by reference
add(self, other) == Saturating(saturating_add(self[1], other[1]))

\* fn add_assign(&mut self, other: Saturating<F>): the value of *self after it
add_assign(self, other) == [self EXCEPT ![1] = saturating_add(self[1], other[1])]

\* fn add_assign(&mut self, other: F): the value of *self after it
add_assign_F(self, other) == [self EXCEPT ![1] = saturating_add(self[1], other)]

\* op! { saturating_sub, Sub sub, SubAssign sub_assign }
sub(self, other) == Saturating(saturating_sub(self[1], other[1]))

sub_assign(self, other) == [self EXCEPT ![1] = saturating_sub(self[1], other[1])]

sub_assign_F(self, other) == [self EXCEPT ![1] = saturating_sub(self[1], other)]

\* widths of F, in bytes: FixedI8, FixedI32 (the I16F16 of the example) and
\* FixedI128, and their unsigned counterparts
FixedWidths == {1, 4, B128}

\* bit patterns of n bytes at and next to the ends of both ranges
FixedBits(n) ==
    {Small(0, n), Small(1, n), Small(2, n),
     BitNot(Pow2(8 * n - 1, n)), Pow2(8 * n - 1, n), BitOr(Pow2(8 * n - 1, n), Small(1, n)),
     BitNot(Small(1, n)), AllOnes(n)}

FixedValues(signed, n) == {Fixed(signed, b) : b \in FixedBits(n)}

\* For the op-assign forms out is the value of *self when the call returns.
Add == Returns("add", add(args.self, args.other))

Sub == Returns("sub", sub(args.self, args.other))

AddAssign == Returns("add_assign", add_assign(args.self, args.other))

SubAssign == Returns("sub_assign", sub_assign(args.self, args.other))

AddAssignF == Returns("add_assign_F", add_assign_F(args.self, args.other[1]))

SubAssignF == Returns("sub_assign_F", sub_assign_F(args.self, args.other[1]))

\* The two operands are of one type F; for the forms taking an F, other holds
\* the operand wrapped and the action passes its field 0.
InitSaturating ==
    /\ fn \in {"add", "sub", "add_assign", "sub_assign", "add_assign_F", "sub_assign_F"}
    /\ \E signed \in BOOLEAN, n \in FixedWidths :
           args \in [self : {Saturating(f) : f \in FixedValues(signed, n)},
                     other : {Saturating(f) : f \in FixedValues(signed, n)}]
    /\ pc = "call"
    /\ out = NoValue

NextSaturating == Add \/ Sub \/ AddAssign \/ SubAssign \/ AddAssignF \/ SubAssignF

SpecSaturating == InitSaturating /\ [][NextSaturating]_vars

(***************************************************************************)
(* Sum and Product over an iterator of Saturating<F>.  The type F is given *)
(* by its signedness, its width and its number of fractional bits; the     *)
(* iterator is the sequence of the items it has still to yield.            *)
(***************************************************************************)
\* a value of a fixed-point type with its number of fractional bits
FixedFrac(signed, bits, frac) == [signed |-> signed, bits |-> bits, frac |-> frac]

\* F::ZERO of the type of f
FixedZERO(f) == [f EXCEPT !.bits = Small(0, Len(f.bits))]

\* 1.saturating_to_fixed(): 1 has the bit pattern 1 << frac when F has an
\* integer bit for it, and the conversion saturates to F::MAX when it has none
one_saturating_to_fixed(f) ==
    IF f.frac >= Bits(f.bits) - (IF f.signed THEN 1 ELSE 0) THEN FixedMAX(f)
    ELSE [f EXCEPT !.bits = Pow2(f.frac, Len(f.bits))]

\* F::saturating_mul of a 128-bit F: the double-width product of the bits,
\* which has 2 * frac fractional bits, brought back to frac fractional bits by
\* the narrowing shift by frac, the policy applied to its flag: clamp to the
\* extreme on the side of the sign of the product
saturating_mul(a, b) ==
    IF a.signed
    THEN LET prod == wide_mul_i128(a.bits, b.bits)
             r == overflowing_shl_i256_into_i128(prod, a.frac)
         IN  IF ~r[2] THEN [a EXCEPT !.bits = r[1]]
             ELSE IF is_negative(prod.hi) THEN FixedMIN(a) ELSE FixedMAX(a)
    ELSE LET prod == wide_mul_u128(a.bits, b.bits)
             r == overflowing_shl_u256_into_u128(prod, a.frac)
         IN  IF r[2] THEN FixedMAX(a) ELSE [a EXCEPT !.bits = r[1]]

\* op! { saturating_mul, Mul mul, MulAssign mul_assign }
mul(self, other) == Saturating(saturating_mul(self[1], other[1]))

\* impl Product<Saturating<F>>: match iter.next(): the accumulator the fold
\* starts from and the iterator it goes on, or the value returned at once
product_first_from_one(ZERO, iter) ==
    [acc |-> Saturating(one_saturating_to_fixed(ZERO)), iter |-> iter,
     done |-> iter = <<>>]

product_first(ZERO, iter) ==
    IF iter = <<>>
    THEN [acc |-> Saturating(one_saturating_to_fixed(ZERO)), iter |-> iter,
          done |-> TRUE]
    ELSE [acc |-> Head(iter), iter |-> Tail(iter), done |-> FALSE]

\* impl Product<&'a Saturating<F>>: the same match, the first item copied out
\* of its reference
product_ref_first(ZERO, iter) ==
    IF iter = <<>>
    THEN [acc |-> Saturating(one_saturating_to_fixed(ZERO)), iter |-> iter,
          done |-> TRUE]
    ELSE [acc |-> Head(iter), iter |-> Tail(iter), done |-> FALSE]

\* impl Sum<Saturating<F>> and impl Sum<&'a Saturating<F>>: the accumulator the
\* fold starts from
sum_first(ZERO) == Saturating(ZERO)

\* out is the accumulator, args.iter the iterator, args.items the items the
\* iterator was created over.
ProductNext ==
    /\ fn \in {"product", "product_ref"}
    /\ pc = "call"
    /\ LET m == IF fn = "product" THEN product_first(args.ZERO, args.iter)
                ELSE product_ref_first(args.ZERO, args.iter)
       IN  /\ out' = m.acc
           /\ args' = [args EXCEPT !.iter = m.iter]
           /\ pc' = IF m.done THEN "return" ELSE "fold"
    /\ UNCHANGED fn

\* iter.fold(first, Mul::mul): one item taken and multiplied into the accumulator
ProductFold ==
    /\ fn \in {"product", "product_ref"}
    /\ pc = "fold"
    /\ args.iter # <<>>
    /\ out' = mul(out, Head(args.iter))
    /\ args' = [args EXCEPT !.iter = Tail(@)]
    /\ UNCHANGED <<fn, pc>>

\* the iterator is exhausted: fold returns the accumulator
ProductReturn ==
    /\ fn \in {"product", "product_ref"}
    /\ pc = "fold"
    /\ args.iter = <<>>
    /\ pc' = "return"
    /\ UNCHANGED <<fn, args, out>>

\* iter.fold(Saturating(F::ZERO), Add::add): the seed
SumSeed ==
    /\ fn \in {"sum", "sum_ref"}
    /\ pc = "call"
    /\ out' = sum_first(args.ZERO)
    /\ pc' = "fold"
    /\ UNCHANGED <<fn, args>>

SumFold ==
    /\ fn \in {"sum", "sum_ref"}
    /\ pc = "fold"
    /\ args.iter # <<>>
    /\ out' = add(out, Head(args.iter))
    /\ args' = [args EXCEPT !.iter = Tail(@)]
    /\ UNCHANGED <<fn, pc>>

SumReturn ==
    /\ fn \in {"sum", "sum_ref"}
    /\ pc = "fold"
    /\ args.iter = <<>>
    /\ pc' = "return"
    /\ UNCHANGED <<fn, args, out>>

\* the longest iterator
MaxItems == 3

\* numbers of fractional bits of a 128-bit F: none, half, all but one, all
FracBits == {0, 64, 127, 128}

\* bit patterns of the items: small, 2^64, all ones, and the signed extremes
ItemBits == {Small(3, B128), Pow2(64, B128), AllOnes(B128), BitNot(Pow2(127, B128))}

InitFold ==
    /\ fn \in {"product", "product_ref", "sum", "sum_ref"}
    /\ \E signed \in BOOLEAN, frac \in FracBits, k \in 0..MaxItems :
           \E items \in [1..k -> {Saturating(FixedFrac(signed, b, frac)) : b \in ItemBits}] :
               args = [ZERO |-> FixedZERO(FixedFrac(signed, Small(0, B128), frac)),
                       items |-> AsSeq(items),
                       iter |-> AsSeq(items)]
    /\ pc = "call"
    /\ out = NoValue

NextFold ==
    \/ ProductNext
    \/ ProductFold
    \/ ProductReturn
    \/ SumSeed
    \/ SumFold
    \/ SumReturn

SpecFold == InitFold /\ [][NextFold]_vars

(***************************************************************************)
(* Mathematics the properties are stated in: integers of unbounded size.   *)
(***************************************************************************)
IntZero == IntOf(FALSE, <<0>>)

\* the integer 2^k
IntPow2(k) == IntOf(FALSE, Pow2(k, (k \div 8) + 1))

IntAbs(x) == IntOf(FALSE, x.mag)

\* floor(x / 2^k).  With k = 8 * w + b the division by 256^w drops the w low
\* bytes of the magnitude, and what is left is divided by 2^b; for a negative x
\* that 2^k does not divide, the floor is one below the quotient of the
\* magnitudes.
FloorDivPow2(x, k) ==
    LET w == k \div 8
        dropped == SubSeq(x.mag, 1, w)
        qr == NatDivMod(SubSeq(x.mag, w + 1, Len(x.mag)), <<2 ^ (k % 8)>>)
    IN  IF x.neg /\ ~(IsZero(dropped) /\ IsZero(qr[2]))
        THEN IntOf(TRUE, NatAdd(qr[1], <<1>>))
        ELSE IntOf(x.neg, qr[1])

\* x / y rounded toward zero (y # 0)
TruncDiv(x, y) == IntOf(x.neg # y.neg, NatDivMod(x.mag, y.mag)[1])

\* x is a value of i128
FitsI128(x) == IntLe(IntNeg(IntPow2(127)), x) /\ IntLt(x, IntPow2(127))

\* the low 128 bits of x in two's complement
Low128(x) ==
    IF x.neg /\ ~IsZero(Ext(x.mag, B128))
    THEN Ext(NatSub(Pow2(128, B128 + 1), Ext(x.mag, B128)), B128)
    ELSE Ext(x.mag, B128)

\* x mod 2^256, as a 256-bit pattern
Low256(x) ==
    IF x.neg /\ ~IsZero(Ext(x.mag, B256))
    THEN Ext(NatSub(Pow2(256, B256 + 1), Ext(x.mag, B256)), B256)
    ELSE Ext(x.mag, B256)

\* x - y
IntSub(x, y) == IntAdd(x, IntNeg(y))

(***************************************************************************)
(* C1: for all u128 a and b, wide_mul_u128(a, b) is the U256 whose value   *)
(* hi * 2^128 + lo is the exact product a * b; and                         *)
(* wide_mul_u128(u128::MAX, u128::MAX) = {lo: 1, hi: u128::MAX - 1}.       *)
(***************************************************************************)
C1_WideMulU128Exact ==
    Returned("wide_mul_u128") =>
        /\ IntEq(U256Val(out), IntMul(UVal(args.lhs), UVal(args.rhs)))
        /\ (args.lhs = AllOnes(B128) /\ args.rhs = AllOnes(B128)) =>
               out = U256(Small(1, B128), wrapping_sub(AllOnes(B128), Small(1, B128)))

C1_Witness ==
    /\ Returned("wide_mul_u128")
    /\ args.lhs = AllOnes(B128)
    /\ args.rhs = AllOnes(B128)
    /\ out.lo = Small(1, B128)

(***************************************************************************)
(* C2: for every U256 n and non-zero u128 d with n.hi < d,                 *)
(* div_rem_u256_u128(n, d) returns (q, r) with q.hi = 0, q.lo * d + r = n  *)
(* in unbounded precision, and r < d; this includes n = {lo: 1, hi: 0xFF}  *)
(* with d = 2^127 + 1, a divisor that needs no normalization shift.        *)
(***************************************************************************)
C2_NarrowDivExact ==
    (Returned("div_rem_u256_u128") /\ ULt(args.n.hi, args.d)) =>
        /\ IsZero(out[1].hi)
        /\ IntEq(IntAdd(IntMul(UVal(out[1].lo), UVal(args.d)), UVal(out[2])),
                 U256Val(args.n))
        /\ ULt(out[2], args.d)

C2_Witness ==
    /\ Returned("div_rem_u256_u128")
    /\ args.n = U256(Small(1, B128), Small(255, B128))
    /\ args.d = BitOr(Pow2(127, B128), Small(1, B128))
    /\ leading_zeros(args.d) = 0
    /\ out[1] = U256(Small(509, B128), Small(0, B128))

(***************************************************************************)
(* C3: for all i128 a and b, i128::MIN included, wide_mul_i128(a, b) is    *)
(* the I256 whose two's-complement value hi * 2^128 + lo (hi signed) is    *)
(* the exact product a * b.                                                *)
(***************************************************************************)
C3_WideMulI128Exact ==
    Returned("wide_mul_i128") =>
        IntEq(I256Val(out), IntMul(IVal(args.lhs), IVal(args.rhs)))

C3_Witness ==
    /\ Returned("wide_mul_i128")
    /\ args.lhs = Pow2(127, B128)
    /\ args.rhs = Pow2(127, B128)
    /\ out = I256(Small(0, B128), Pow2(126, B128))

\* the call is one of div_rem_i256_i128_no_overflow that has returned and whose
\* mathematical quotient fits in an i128: a valid input
ReturnedValidSignedDiv ==
    /\ Returned("div_rem_i256_i128_no_overflow")
    /\ FitsI128(TruncDiv(I256Val(args.n), IVal(args.d)))

(***************************************************************************)
(* C4: for every I256 n and non-zero i128 d whose mathematical quotient    *)
(* fits in an i128, div_rem_i256_i128_no_overflow(n, d) returns (q, r)     *)
(* where q is n / d rounded toward zero, n = q * d + r exactly and         *)
(* |r| < |d|.                                                              *)
(***************************************************************************)
C4_SignedDivTruncates ==
    ReturnedValidSignedDiv =>
        /\ IntEq(I256Val(out[1]), TruncDiv(I256Val(args.n), IVal(args.d)))
        /\ IntEq(IntAdd(IntMul(I256Val(out[1]), IVal(args.d)), IVal(out[2])),
                 I256Val(args.n))
        /\ IntLt(IntAbs(IVal(out[2])), IntAbs(IVal(args.d)))

\* -2^127 / 255: the quotient is negative and the remainder is -128
C4_Witness ==
    /\ ReturnedValidSignedDiv
    /\ args.n = I256(Pow2(127, B128), AllOnes(B128))
    /\ args.d = Small(255, B128)
    /\ is_negative(out[1].hi)
    /\ out[2] = wrapping_neg(Small(128, B128))

(***************************************************************************)
(* C5: for every U256 n and every non-zero u128 d, whatever n.hi is to d,  *)
(* div_rem_u256_u128(n, d) returns a 256-bit quotient q and a remainder r  *)
(* with q * d + r = n exactly (q.hi * d fits in 128 bits) and r < d; when  *)
(* n.hi >= d the high limb of the quotient is not zero.                    *)
(***************************************************************************)
C5_FullDivExact ==
    Returned("div_rem_u256_u128") =>
        /\ IntEq(IntAdd(IntMul(U256Val(out[1]), UVal(args.d)), UVal(out[2])),
                 U256Val(args.n))
        /\ IntLt(IntMul(UVal(out[1].hi), UVal(args.d)), IntPow2(128))
        /\ ULt(out[2], args.d)
        /\ ULe(args.d, args.n.hi) => ~IsZero(out[1].hi)

\* u128::MAX * 2^128 + 1 by 0xFF: the normalization shifts bits out of n.hi
C5_Witness ==
    /\ Returned("div_rem_u256_u128")
    /\ args.n = U256(Small(1, B128), AllOnes(B128))
    /\ args.d = Small(255, B128)
    /\ leading_zeros(args.d) = 120
    /\ ~IsZero(out[1].hi)

(***************************************************************************)
(* C6: for every valid input of div_rem_i256_i128_no_overflow the          *)
(* remainder is zero or has the sign of the dividend: r <= 0 when n is     *)
(* negative and r >= 0 when n is not, whatever the sign of the divisor.    *)
(***************************************************************************)
C6_RemainderSign ==
    ReturnedValidSignedDiv =>
        /\ is_negative(args.n.hi) => IntLe(IVal(out[2]), IntZero)
        /\ ~is_negative(args.n.hi) => IntLe(IntZero, IVal(out[2]))

C6_Witness ==
    /\ ReturnedValidSignedDiv
    /\ is_negative(args.n.hi)
    /\ ~is_negative(args.d)
    /\ IntLt(IVal(out[2]), IntZero)

(***************************************************************************)
(* C7, as stated: for every valid input of div_rem_i256_i128_no_overflow   *)
(* the quotient is positive if and only if the dividend and the divisor    *)
(* have the same sign.  A dividend smaller in magnitude than the divisor   *)
(* gives the quotient 0, which is not positive, whatever the signs.        *)
(***************************************************************************)
C7_QuotientPositiveIffSameSign ==
    ReturnedValidSignedDiv =>
        (IntLt(IntZero, I256Val(out[1])) <=> (is_negative(args.n.hi) = is_negative(args.d)))

(***************************************************************************)
(* C7, amended: for every valid input of div_rem_i256_i128_no_overflow     *)
(* the quotient is zero exactly when |n| < |d|; otherwise it is positive   *)
(* when the dividend and the divisor have the same sign and negative when  *)
(* they have different signs.                                              *)
(***************************************************************************)
C7_QuotientSign ==
    ReturnedValidSignedDiv =>
        /\ IntEq(I256Val(out[1]), IntZero)
             <=> IntLt(IntAbs(I256Val(args.n)), IntAbs(IVal(args.d)))
        /\ IntLt(IntZero, I256Val(out[1])) => is_negative(args.n.hi) = is_negative(args.d)
        /\ IntLt(I256Val(out[1]), IntZero) => is_negative(args.n.hi) # is_negative(args.d)

\* 1 / 255: the signs agree and the quotient is 0
C7_Witness ==
    /\ ReturnedValidSignedDiv
    /\ args.n = I256(Small(1, B128), Small(0, B128))
    /\ args.d = Small(255, B128)
    /\ out[1] = I256(Small(0, B128), Small(0, B128))

(***************************************************************************)
(* C8: for every I256 a and every sh in 0..=128,                           *)
(* overflowing_shl_i256_into_i128(a, sh) returns (v, f) where v is the low *)
(* 128 bits of floor(a / 2^sh) read as an i128 and f is true if and only   *)
(* if floor(a / 2^sh) lies outside [-2^127, 2^127); at sh = 128 the flag   *)
(* is always false.                                                        *)
(***************************************************************************)
C8_SignedNarrowingShift ==
    Returned("overflowing_shl_i256_into_i128") =>
        LET floor == FloorDivPow2(I256Val(args.a), args.sh)
        IN  /\ out[1] = Low128(floor)
            /\ out[2] <=> ~FitsI128(floor)
            /\ args.sh = 128 => ~out[2]

\* (-2^128 + 1) shifted by 7: the floor is -2^121, below the quotient rounded
\* toward zero, and fits
C8_Witness ==
    /\ Returned("overflowing_shl_i256_into_i128")
    /\ args.a = I256(Small(1, B128), AllOnes(B128))
    /\ args.sh = 7
    /\ out = <<wrapping_neg(Pow2(121, B128)), FALSE>>

(***************************************************************************)
(* C9: for every U256 a and every sh in 0..=128,                           *)
(* overflowing_shl_u256_into_u128(a, sh) returns (v, f) where              *)
(* v = floor(a / 2^sh) mod 2^128 and f is true if and only if              *)
(* floor(a / 2^sh) >= 2^128; at sh = 0 the flag is (a.hi != 0) and at      *)
(* sh = 128 it is always false.                                            *)
(***************************************************************************)
C9_UnsignedNarrowingShift ==
    Returned("overflowing_shl_u256_into_u128") =>
        LET floor == FloorDivPow2(U256Val(args.a), args.sh)
        IN  /\ out[1] = Low128(floor)
            /\ out[2] <=> IntLe(IntPow2(128), floor)
            /\ args.sh = 0 => (out[2] <=> ~IsZero(args.a.hi))
            /\ args.sh = 128 => ~out[2]

\* a high limb 0xFF shifted by 120: every bit of the high limb is kept
C9_Witness ==
    /\ Returned("overflowing_shl_u256_into_u128")
    /\ args.a.hi = Small(255, B128)
    /\ args.sh = 120
    /\ ~out[2]

(***************************************************************************)
(* C10: for every U256 a and every sh in 0..=128, shl_u256_max_128(a, sh), *)
(* a logical right shift, returns floor(a / 2^sh) as a U256; at sh = 0 it  *)
(* returns a unchanged and at sh = 128 it returns {lo: a.hi, hi: 0}.       *)
(***************************************************************************)
C10_LogicalRightShift ==
    Returned("shl_u256_max_128") =>
        /\ IntEq(U256Val(out), FloorDivPow2(U256Val(args.a), args.sh))
        /\ args.sh = 0 => out = args.a
        /\ args.sh = 128 => out = U256(args.a.hi, Small(0, B128))

C10_Witness ==
    /\ Returned("shl_u256_max_128")
    /\ args.a = U256(Small(1, B128), AllOnes(B128))
    /\ args.sh = 128
    /\ out = U256(AllOnes(B128), Small(0, B128))

(***************************************************************************)
(* C11: for every I256 a and every sh in 0..=128, shl_i256_max_128(a, sh)  *)
(* returns the arithmetic right shift floor(a / 2^sh) as an I256; at       *)
(* sh = 0 it returns a unchanged and at sh = 128 it returns {lo: a.hi as   *)
(* u128, hi: 0 if a.hi >= 0 else -1}.                                      *)
(***************************************************************************)
C11_ArithmeticRightShift ==
    Returned("shl_i256_max_128") =>
        /\ IntEq(I256Val(out), FloorDivPow2(I256Val(args.a), args.sh))
        /\ args.sh = 0 => out = args.a
        /\ args.sh = 128 =>
               out = I256(args.a.hi, IF is_negative(args.a.hi) THEN AllOnes(B128)
                                     ELSE Small(0, B128))

\* (-2^128 + 1) shifted by 7: the floor is -2^121, the sign fills the high limb
C11_Witness ==
    /\ Returned("shl_i256_max_128")
    /\ args.a = I256(Small(1, B128), AllOnes(B128))
    /\ args.sh = 7
    /\ out = I256(wrapping_neg(Pow2(121, B128)), AllOnes(B128))

(***************************************************************************)
(* C12, as stated: every public operation of the kernel that can return a  *)
(* value different from the exact mathematical result also returns a       *)
(* flag, and the flag is true in exactly the cases where information was   *)
(* lost; this covers the add, subtract, negate, reinterpret and            *)
(* narrowing-shift helpers alike.  An operation that returns no flag must  *)
(* then always return the exact result.                                    *)
(***************************************************************************)
C12_FlaggedAddSubExact ==
    /\ Returned("overflowing_add_u128_u256") =>
           (out[2] <=> ~IntEq(UVal(out[1]), IntAdd(UVal(args.a), U256Val(args.b))))
    /\ Returned("overflowing_sub_u128_u256") =>
           (out[2] <=> ~IntEq(UVal(out[1]), IntSub(UVal(args.a), U256Val(args.b))))
    /\ Returned("overflowing_add_i256_i128") =>
           (out[2] <=> ~IntEq(I256Val(out[1]), IntAdd(I256Val(args.a), IVal(args.b))))
    /\ Returned("overflowing_add_u256") =>
           (out[2] <=> ~IntEq(U256Val(out[1]), IntAdd(U256Val(args.a), U256Val(args.b))))

\* the call of a narrowing shift returned a pair whose flag is true exactly
\* when the value differs from the exact result floor(a / 2^sh)
NarrowingShiftExact ==
    /\ Len(out) = 2
    /\ IF fn = "overflowing_shl_u256_into_u128"
       THEN out[2] <=> ~IntEq(UVal(out[1]), FloorDivPow2(U256Val(args.a), args.sh))
       ELSE out[2] <=> ~IntEq(IVal(out[1]), FloorDivPow2(I256Val(args.a), args.sh))

\* a narrowing shift was called and the call is over
ReturnedNarrowingShift ==
    \/ Returned("overflowing_shl_u256_into_u128")
    \/ Returned("overflowing_shl_i256_into_i128")

\* What a call with a shift count above 128 gives.  The arithmetic of the last
\* branch overflows, so the call panics where overflow is checked; where it is
\* not, the primitive shifts take their amounts modulo 128: the pair returned
\* is the pair of the shift by sh mod 128 when that is not 0, and the value is
\* a.lo | a.hi when it is.
NarrowingShiftAbove128 ==
    /\ IF fn = "overflowing_shl_u256_into_u128"
       THEN overflowing_shl_u256_into_u128_overflow(args.a, args.sh)
       ELSE overflowing_shl_i256_into_i128_overflow(args.a, args.sh)
    /\ \/ out = Panic
       \/ /\ Len(out) = 2
          /\ args.sh % 128 # 0 =>
                 out = IF fn = "overflowing_shl_u256_into_u128"
                       THEN overflowing_shl_u256_into_u128(args.a, args.sh % 128)
                       ELSE overflowing_shl_i256_into_i128(args.a, args.sh % 128)
          /\ args.sh % 128 = 0 => out[1] = BitOr(args.a.lo, args.a.hi)

C12_FlaggedHelpersExact ==
    /\ C12_FlaggedAddSubExact
    /\ ReturnedNarrowingShift => NarrowingShiftExact

C12_UnflaggedHelpersWrap ==
    /\ Returned("wrapping_add_u256_u128") =>
           out.lo \o out.hi = Low256(IntAdd(U256Val(args.a), UVal(args.b)))
    /\ Returned("wrapping_neg_u256") =>
           out.lo \o out.hi = Low256(IntNeg(U256Val(args.a)))
    /\ Returned("wrapping_sub_u256") =>
           out.lo \o out.hi = Low256(IntSub(U256Val(args.a), U256Val(args.b)))
    /\ Returned("u256_wrapping_as_i256") =>
           out.lo \o out.hi = Low256(U256Val(args.a))

C12_EveryLossFlagged ==
    /\ C12_FlaggedHelpersExact
    /\ Returned("wrapping_add_u256_u128") =>
           IntEq(U256Val(out), IntAdd(U256Val(args.a), UVal(args.b)))
    /\ Returned("wrapping_neg_u256") =>
           IntEq(U256Val(out), IntNeg(U256Val(args.a)))
    /\ Returned("wrapping_sub_u256") =>
           IntEq(U256Val(out), IntSub(U256Val(args.a), U256Val(args.b)))
    /\ Returned("u256_wrapping_as_i256") =>
           IntEq(I256Val(out), U256Val(args.a))

(***************************************************************************)
(* C12, amended: the overflowing_* additions and subtractions, and the     *)
(* narrowing shifts called with a shift count in 0..=128, return a flag    *)
(* that is true in exactly the cases where the value returned differs from *)
(* the exact result; the operations named wrapping_* (add, negate,         *)
(* subtract) and u256_wrapping_as_i256 return no flag, and return the      *)
(* exact result reduced modulo 2^256; a narrowing shift called with a      *)
(* shift count above 128 panics where overflow is checked and elsewhere    *)
(* returns the pair of the shift amounts taken modulo 128, whose flag does *)
(* not tell whether the value is the exact result.                         *)
(***************************************************************************)
C12_LossFlaggedOrWrapped ==
    /\ C12_FlaggedAddSubExact
    /\ C12_UnflaggedHelpersWrap
    /\ ReturnedNarrowingShift =>
           IF args.sh <= 128 THEN NarrowingShiftExact ELSE NarrowingShiftAbove128

\* wrapping_neg_u256(1) is 2^256 - 1, not -1, and no flag says so
C12_Witness ==
    /\ Returned("wrapping_neg_u256")
    /\ args.a = U256(Small(1, B128), Small(0, B128))
    /\ out = U256(AllOnes(B128), AllOnes(B128))

\* the largest value of a signed type of the given number of bits, and the least
IntMaxSigned(bits) == IntSub(IntPow2(bits - 1), IntOf(FALSE, <<1>>))
IntMinSigned(bits) == IntNeg(IntPow2(bits - 1))

\* the saturated result: x clamped to the signed type of the given number of bits
Clamp(x, bits) ==
    IF IntLt(x, IntMinSigned(bits)) THEN IntMinSigned(bits)
    ELSE IF IntLt(IntMaxSigned(bits), x) THEN IntMaxSigned(bits)
    ELSE x

(***************************************************************************)
(* C13, as stated: the saturating policy is computable from the kernel's   *)
(* output alone: for overflowing_shl_i256_into_i128 and                    *)
(* overflowing_add_i256_i128, any two inputs that return the same          *)
(* (value, flag) pair have the same saturated result, the clamp of the     *)
(* exact result to the target range.                                       *)
(***************************************************************************)
C13_SaturationFromOutputAlone ==
    /\ Returned("overflowing_shl_i256_into_i128") =>
           \A a2 \in Wides : \A sh2 \in ShiftCounts :
               overflowing_shl_i256_into_i128(a2, sh2) = out =>
                   IntEq(Clamp(FloorDivPow2(I256Val(a2), sh2), 128),
                         Clamp(FloorDivPow2(I256Val(args.a), args.sh), 128))
    /\ Returned("overflowing_add_i256_i128") =>
           \A a2 \in Wides : \A b2 \in Words :
               overflowing_add_i256_i128(a2, b2) = out =>
                   IntEq(Clamp(IntAdd(I256Val(a2), IVal(b2)), 256),
                         Clamp(IntAdd(I256Val(args.a), IVal(args.b)), 256))

(***************************************************************************)
(* C13, amended: the saturated result of overflowing_add_i256_i128 is      *)
(* computable from its output alone (the sum when the flag is false, MAX   *)
(* when the flag is true and the wrapped sum is negative, MIN when it is   *)
(* true and the wrapped sum is not); the saturated result of               *)
(* overflowing_shl_i256_into_i128 is computable from its output and the    *)
(* sign of the shifted value a (the value when the flag is false, MIN when *)
(* the flag is true and a is negative, MAX when it is true and a is not)   *)
(* for a shift count in 0..=128, and not from the output alone; called     *)
(* with a shift count above 128 the shift panics where overflow is checked *)
(* and elsewhere returns the pair of the shift amounts taken modulo 128,   *)
(* from which that rule does not give the saturated result.                *)
(***************************************************************************)
C13_SaturationFromOutputAndSign ==
    /\ Returned("overflowing_add_i256_i128") =>
           IntEq(Clamp(IntAdd(I256Val(args.a), IVal(args.b)), 256),
                 IF ~out[2] THEN I256Val(out[1])
                 ELSE IF is_negative(out[1].hi) THEN IntMaxSigned(256)
                 ELSE IntMinSigned(256))
    /\ Returned("overflowing_shl_i256_into_i128") =>
           IF args.sh <= 128
           THEN /\ Len(out) = 2
                /\ IntEq(Clamp(FloorDivPow2(I256Val(args.a), args.sh), 128),
                         IF ~out[2] THEN IVal(out[1])
                         ELSE IF is_negative(args.a.hi) THEN IntMinSigned(128)
                         ELSE IntMaxSigned(128))
           ELSE NarrowingShiftAbove128

\* 2^128 + 1 shifted by 0 returns (1, true), and so does -2^255 + 1: the first
\* saturates to MAX and the second to MIN
C13_Witness ==
    /\ Returned("overflowing_shl_i256_into_i128")
    /\ args.a = I256(Small(1, B128), Small(1, B128))
    /\ args.sh = 0
    /\ out = <<Small(1, B128), TRUE>>
    /\ overflowing_shl_i256_into_i128(I256(Small(1, B128), Pow2(127, B128)), 0) = out

(***************************************************************************)
(* C14: the narrowing shifts overflowing_shl_u256_into_u128 and            *)
(* overflowing_shl_i256_into_i128 have no precondition on the shift count: *)
(* for every 256-bit value and every u32 shift count, counts above 128     *)
(* included, they return a (value, flag) pair without computing a negative *)
(* 128 - sh and without executing a primitive shift by 128 bits or more.   *)
(***************************************************************************)
C14_NoPreconditionOnShiftCount ==
    /\ Returned("overflowing_shl_u256_into_u128") =>
           /\ Len(out) = 2
           /\ ~overflowing_shl_u256_into_u128_overflow(args.a, args.sh)
    /\ Returned("overflowing_shl_i256_into_i128") =>
           /\ Len(out) = 2
           /\ ~overflowing_shl_i256_into_i128_overflow(args.a, args.sh)

(***************************************************************************)
(* C15: in div_rem_u256_u128, for every non-zero divisor, with and without *)
(* leading zeros, the divisor passed to each of the four calls of          *)
(* div_half_u128 has its most significant bit set, so its high 64-bit half *)
(* dh is not zero and the hint assert_unchecked(dh != 0) is valid at every *)
(* call.                                                                   *)
(***************************************************************************)
C15_DivisorNormalizedAtEveryCall ==
    Returned("div_rem_u256_u128") =>
        LET calls == div_rem_u256_u128_calls(args.n, args.d)
        IN  /\ Len(calls) = 4
            /\ \A i \in 1..4 :
                   /\ is_negative(calls[i][2])
                   /\ NatLe(Pow2(127, B128), calls[i][2])
                   /\ div_half_u128_hint(calls[i][2])

C15_Witness ==
    /\ Returned("div_rem_u256_u128")
    /\ args.n = U256(Small(1, B128), AllOnes(B128))
    /\ args.d = Small(255, B128)
    /\ leading_zeros(args.d) > 0
    /\ div_rem_u256_u128_calls(args.n, args.d)[4][2] = Shl(Small(255, B128), 120)
    /\ div_half_u128_hint(div_rem_u256_u128_calls(args.n, args.d)[4][2])

(***************************************************************************)
(* C16: for all U256 a and b, overflowing_add_u256(a, b) returns           *)
(* ((a + b) mod 2^256, c) where c is true if and only if a + b >= 2^256;   *)
(* the two carries of the high limb, that of a.hi + b.hi and that of       *)
(* adding the carry of the low limb, are never both set.                   *)
(***************************************************************************)
C16_OverflowingAddU256 ==
    Returned("overflowing_add_u256") =>
        LET exact == IntAdd(U256Val(args.a), U256Val(args.b))
            carries == overflowing_add_u256_carries(args.a, args.b)
        IN  /\ out[1].lo \o out[1].hi = Low256(exact)
            /\ out[2] <=> IntLe(IntPow2(256), exact)
            /\ ~(carries[1] /\ carries[2])

\* (2^256 - 1) + 1: the carry of the low limb carries out of the high limb
C16_Witness ==
    /\ Returned("overflowing_add_u256")
    /\ args.a = U256(AllOnes(B128), AllOnes(B128))
    /\ args.b = U256(Small(1, B128), Small(0, B128))
    /\ overflowing_add_u256_carries(args.a, args.b) = <<FALSE, TRUE>>
    /\ out = <<U256(Small(0, B128), Small(0, B128)), TRUE>>

(***************************************************************************)
(* C17: for every I256 a and i128 b, overflowing_add_i256_i128(a, b)       *)
(* returns (s, o) where s is a + b wrapped into the signed 256-bit range   *)
(* and o is true if and only if the exact sum a + b lies outside           *)
(* [-2^255, 2^255); the internal sum of the sign-extension word of b       *)
(* (0 or -1) and the carry of the low limb (0 or 1) never wraps.           *)
(***************************************************************************)
C17_OverflowingAddI256I128 ==
    Returned("overflowing_add_i256_i128") =>
        LET exact == IntAdd(I256Val(args.a), IVal(args.b))
            inner == overflowing_add_i256_i128_b_hi_plus_carry(args.a, args.b)
            b_hi == IVal(inner[1])
            carry == IntOf(FALSE, <<IF inner[2] THEN 1 ELSE 0>>)
        IN  /\ out[1].lo \o out[1].hi = Low256(exact)
            /\ out[2] <=> ~(IntLe(IntNeg(IntPow2(255)), exact) /\ IntLt(exact, IntPow2(255)))
            /\ IntEq(b_hi, IntZero) \/ IntEq(b_hi, IntNeg(IntOf(FALSE, <<1>>)))
            /\ IntEq(b_hi, IntZero) <=> ~is_negative(args.b)
            /\ IntEq(IVal(inner[3]), IntAdd(b_hi, carry))

\* (2^255 - 1) + 1 overflows; -1 + (-1) has b.hi = -1 and a carry
C17_Witness ==
    /\ Returned("overflowing_add_i256_i128")
    /\ args.a = I256(AllOnes(B128), AllOnes(B128))
    /\ args.b = AllOnes(B128)
    /\ overflowing_add_i256_i128_b_hi_plus_carry(args.a, args.b)
           = <<AllOnes(B128), TRUE, Small(0, B128)>>
    /\ out = <<I256(BitNot(Small(1, B128)), AllOnes(B128)), FALSE>>

(***************************************************************************)
(* C18: for every U256 a, wrapping_neg_u256(a) equals (2^256 - a) mod      *)
(* 2^256: overflowing_add_u256(a, wrapping_neg_u256(a)) has value 0,       *)
(* wrapping_neg_u256(wrapping_neg_u256(a)) = a, the carry into the high    *)
(* limb occurs exactly when a.lo = 0, and wrapping_sub_u256(a, b) =        *)
(* wrapping_neg_u256(wrapping_sub_u256(b, a)) for all b.                   *)
(***************************************************************************)
C18_WrappingNegU256 ==
    /\ Returned("wrapping_neg_u256") =>
           /\ out.lo \o out.hi = Low256(IntSub(IntPow2(256), U256Val(args.a)))
           /\ overflowing_add_u256(args.a, out)[1] = U256(Small(0, B128), Small(0, B128))
           /\ wrapping_neg_u256(out) = args.a
           /\ wrapping_neg_u256_carry(args.a) <=> IsZero(args.a.lo)
    /\ Returned("wrapping_sub_u256") =>
           out = wrapping_neg_u256(wrapping_sub_u256(args.b, args.a))

\* the negation of 2^128: the low limb is 0 and carries into the high limb
C18_Witness ==
    /\ Returned("wrapping_neg_u256")
    /\ args.a = U256(Small(0, B128), Small(1, B128))
    /\ wrapping_neg_u256_carry(args.a)
    /\ out = U256(Small(0, B128), AllOnes(B128))

\* the number a value of F stands for, in units of F::DELTA
FixedVal(f) == IF f.signed THEN IVal(f.bits) ELSE UVal(f.bits)

\* r is the exact result when F can represent it, F::MAX when the exact result
\* is above the range of F and F::MIN when it is below
SaturatedTo(r, exact, a) ==
    IF IntLt(FixedVal(FixedMAX(a)), exact) THEN r = FixedMAX(a)
    ELSE IF IntLt(exact, FixedVal(FixedMIN(a))) THEN r = FixedMIN(a)
    ELSE /\ r.signed = a.signed
         /\ Len(r.bits) = Len(a.bits)
         /\ IntEq(FixedVal(r), exact)

(***************************************************************************)
(* C19: for Saturating<F> values a and b, a + b and a - b equal the exact  *)
(* sum or difference when it is representable in F and otherwise F::MAX    *)
(* (result above the range) or F::MIN (result below the range), never a    *)
(* wrapped value; in particular Saturating(F::MAX) + Saturating(F::DELTA)  *)
(* = Saturating(F::MAX), and the op-assign forms (+=, -=) store the same   *)
(* result.                                                                 *)
(***************************************************************************)
C19_SaturatingAddSub ==
    LET a == args.self[1]
        b == args.other[1]
    IN  /\ (pc = "return" /\ fn \in {"add", "add_assign", "add_assign_F"}) =>
               /\ Len(out) = 1
               /\ SaturatedTo(out[1], IntAdd(FixedVal(a), FixedVal(b)), a)
        /\ (pc = "return" /\ fn \in {"sub", "sub_assign", "sub_assign_F"}) =>
               /\ Len(out) = 1
               /\ SaturatedTo(out[1], IntSub(FixedVal(a), FixedVal(b)), a)
        /\ (Returned("add") /\ a = FixedMAX(a) /\ b = FixedDELTA(a)) =>
               out = Saturating(FixedMAX(a))

\* the example of the documentation: I16F16::MAX + I16F16::DELTA
C19_Witness ==
    /\ Returned("add")
    /\ args.self = Saturating(Fixed(TRUE, <<255, 255, 255, 127>>))
    /\ args.other = Saturating(Fixed(TRUE, <<1, 0, 0, 0>>))
    /\ wrapping_add(args.self[1].bits, args.other[1].bits) = <<0, 0, 0, 128>>
    /\ out = Saturating(Fixed(TRUE, <<255, 255, 255, 127>>))

(***************************************************************************)
(* C20: in div_half_u128, for every divisor d with its top bit set, every  *)
(* running remainder r < d and every 64-bit next_half, the initial         *)
(* estimate q0 = floor(r / dh) satisfies q_true <= q0 <= q_true + 2 where  *)
(* q_true = floor((r * 2^64 + next_half) / d); hence the at most two       *)
(* decrements the code makes always reach q_true, and a third correction   *)
(* is never needed.                                                        *)
(***************************************************************************)
C20_EstimateWithinTwo ==
    Returned("div_half_u128") =>
        LET q0 == div_half_u128_estimate(args.r, args.d)[1]
            true == NatDivMod(args.next_half \o args.r, args.d)
            q_true == true[1]
        IN  /\ NatLe(q_true, q0)
            /\ NatLe(q0, NatAdd(q_true, <<2>>))
            /\ NatEq(out[2], q_true)
            /\ NatEq(out[1], true[2])

\* d = 2^127 + 2^64 - 1 and r = 2^127 + 1: the estimate is 2^64, two above the
\* quotient 2^64 - 2
C20_Witness ==
    /\ Returned("div_half_u128")
    /\ args.d = BitOr(Pow2(127, B128), AllOnes(B64) \o Small(0, B64))
    /\ args.r = BitOr(Pow2(127, B128), Small(1, B128))
    /\ div_half_u128_estimate(args.r, args.d)[1] = Pow2(64, B128)
    /\ out[2] = BitNot(Small(1, B64)) \o Small(0, B64)

(***************************************************************************)
(* C21: each half-limb step keeps the invariant of long division: given d  *)
(* with its top bit set and a running remainder r < d,                     *)
(* div_half_u128(r, d, next_half) returns (r', q) with                     *)
(* r * 2^64 + next_half = q * d + r', 0 <= r' < d and q < 2^64, also when  *)
(* the intermediate additions of d wrap modulo 2^128; so in                *)
(* div_rem_u256_u128 the running remainder is below the normalized divisor *)
(* before and after each of the four steps, starting from the initial      *)
(* remainder (the bits shifted out of n.hi by normalization, or 0).        *)
(***************************************************************************)
C21_HalfStepInvariant ==
    /\ Returned("div_half_u128") =>
           /\ IntEq(UVal(args.next_half \o args.r),
                    IntAdd(IntMul(UVal(out[2]), UVal(args.d)), UVal(out[1])))
           /\ ULt(out[1], args.d)
           /\ NatLt(out[2], Pow2(64, B128))
    /\ Returned("div_rem_u256_u128") =>
           LET calls == div_rem_u256_u128_calls(args.n, args.d)
               last == div_half_u128(calls[4][1], calls[4][2], calls[4][3])
           IN  /\ \A i \in 1..4 : ULt(calls[i][1], calls[i][2])
               /\ ULt(last[1], calls[4][2])
               /\ IntEq(UVal(calls[1][1]),
                        FloorDivPow2(UVal(args.n.hi), 128 - leading_zeros(args.d)))

\* a step in which r + d wraps modulo 2^128 after the first decrement
C21_Witness ==
    /\ Returned("div_half_u128")
    /\ LET est == div_half_u128_estimate(args.r, args.d)
           m == wrapping_mul(est[1], ZeroExt(u128_lo_hi(args.d)[1], B128))
           r0 == wrapping_add(ZeroExt(args.next_half, B128), Shl(est[2], 64))
       IN  /\ ULt(r0, m)
           /\ overflowing_add(r0, args.d)[2]
           /\ out[2] = wrapping_sub(est[1], Small(1, B128))
    /\ ULt(out[1], args.d)

\* the integer v, for a v below 256
IntSmall(v) == IntOf(FALSE, <<v>>)

\* lo <= x <= hi
IntWithin(x, lo, hi) == IntLe(lo, x) /\ IntLe(x, hi)

(***************************************************************************)
(* C22: in wide_mul_u128 and wide_mul_i128 none of the wrapping_add        *)
(* accumulations wraps, and every intermediate is within the bound the     *)
(* code documents (unsigned: col64a <= 2^64 - 2, col64b <= 2^128 - 2^64    *)
(* - 1, col128a <= 2^64 - 2, col64d <= 2^128 - 2^64, col128b <= 2^64 - 1;  *)
(* signed: col64b in [-2^127 + 2^63, 2^127 - 2^63 - 1], col64d in          *)
(* [-2^127 + 2^63, 2^127 - 2^63], col128a and col128b in                   *)
(* [-2^63, 2^63 - 1]), for all operand values; no partial sum is           *)
(* truncated.                                                              *)
(***************************************************************************)
C22_NoAccumulationWraps ==
    /\ Returned("wide_mul_u128") =>
           LET c == wide_mul_u128_cols(args.lhs, args.rhs)
           IN  /\ IntEq(UVal(c.col64b), IntAdd(UVal(c.col64a), UVal(c.lh_rl)))
               /\ IntEq(UVal(c.col64d), IntAdd(UVal(c.col64c), UVal(c.ll_rh)))
               /\ IntEq(UVal(c.ans128a), IntAdd(UVal(c.lh_rh), UVal(c.col128a)))
               /\ IntEq(UVal(c.ans128), IntAdd(UVal(c.ans128a), UVal(c.col128b)))
               /\ c.ans128 = out.hi
               /\ IntLe(UVal(c.col64a), IntSub(IntPow2(64), IntSmall(2)))
               /\ IntLe(UVal(c.col64b),
                        IntSub(IntSub(IntPow2(128), IntPow2(64)), IntSmall(1)))
               /\ IntLe(UVal(c.col128a), IntSub(IntPow2(64), IntSmall(2)))
               /\ IntLe(UVal(c.col64d), IntSub(IntPow2(128), IntPow2(64)))
               /\ IntLe(UVal(c.col128b), IntSub(IntPow2(64), IntSmall(1)))
    /\ Returned("wide_mul_i128") =>
           LET c == wide_mul_i128_cols(args.lhs, args.rhs)
               low == IntAdd(IntNeg(IntPow2(127)), IntPow2(63))
               high == IntSub(IntPow2(127), IntPow2(63))
           IN  /\ IntEq(IVal(c.col64b), IntAdd(UVal(c.col64a), IVal(c.lh_rl)))
               /\ IntEq(IVal(c.col64d), IntAdd(UVal(c.col64c), IVal(c.ll_rh)))
               /\ IntEq(IVal(c.ans128a), IntAdd(IVal(c.lh_rh), IVal(c.col128a)))
               /\ IntEq(IVal(c.ans128), IntAdd(IVal(c.ans128a), IVal(c.col128b)))
               /\ c.ans128 = out.hi
               /\ IntWithin(IVal(c.col64b), low, IntSub(high, IntSmall(1)))
               /\ IntWithin(IVal(c.col64d), low, high)
               /\ IntWithin(IVal(c.col128a), IntNeg(IntPow2(63)),
                            IntSub(IntPow2(63), IntSmall(1)))
               /\ IntWithin(IVal(c.col128b), IntNeg(IntPow2(63)),
                            IntSub(IntPow2(63), IntSmall(1)))

\* u128::MAX * u128::MAX: col64a and col64b are at their bounds
C22_Witness ==
    /\ Returned("wide_mul_u128")
    /\ args.lhs = AllOnes(B128)
    /\ args.rhs = AllOnes(B128)
    /\ LET c == wide_mul_u128_cols(args.lhs, args.rhs)
       IN  /\ IntEq(UVal(c.col64a), IntSub(IntPow2(64), IntSmall(2)))
           /\ IntEq(UVal(c.col64b),
                    IntSub(IntSub(IntPow2(128), IntPow2(64)), IntSmall(1)))

(***************************************************************************)
(* C23: for every u64 a and i64 b, mul_u64_i64(a, b) returns the exact     *)
(* product a * b as an i128: the correction b * 2^64 is added exactly when *)
(* a >= 2^63 (a read as an i64 is negative), and neither the wrapping      *)
(* multiplication nor the wrapping addition of the correction wraps.       *)
(***************************************************************************)
C23_MulU64I64Exact ==
    Returned("mul_u64_i64") =>
        LET product == wrapping_mul(SignExt(args.a, B128), SignExt(args.b, B128))
            correction == mul_u64_i64_correction(args.a, args.b)
        IN  /\ IntEq(IVal(out), IntMul(UVal(args.a), IVal(args.b)))
            /\ IF IntLe(IntPow2(63), UVal(args.a))
               THEN IntEq(IVal(correction), IntMul(IVal(args.b), IntPow2(64)))
               ELSE IntEq(IVal(correction), IntZero)
            /\ IntEq(IVal(product), IntMul(IVal(args.a), IVal(args.b)))
            /\ IntEq(IVal(out), IntAdd(IVal(product), IVal(correction)))

\* (2^64 - 1) * -2^63: the product -1 * -2^63 = 2^63 is corrected by -2^127
C23_Witness ==
    /\ Returned("mul_u64_i64")
    /\ args.a = AllOnes(B64)
    /\ args.b = Pow2(63, B64)
    /\ mul_u64_i64_correction(args.a, args.b) = Pow2(127, B128)
    /\ out = BitOr(Pow2(127, B128), Pow2(63, B128))

(***************************************************************************)
(* C24: for every shift count sh in 0..=128 passed to shl_u256_max_128,    *)
(* shl_i256_max_128, overflowing_shl_u256_into_u128 or                     *)
(* overflowing_shl_i256_into_i128, and for every non-zero divisor passed   *)
(* to div_rem_u256_u128 (0 to 127 leading zeros), every primitive 128-bit  *)
(* shift that is executed has an amount between 0 and 127: the cases       *)
(* sh = 0, sh = 128 and leading_zeros = 0 are branched around, so that     *)
(* neither x >> 128 nor x << 128 is evaluated.                             *)
(***************************************************************************)
C24_ShiftAmountsBelowWidth ==
    LET InRange(amounts) == \A k \in amounts : 0 <= k /\ k <= 127
    IN  /\ Returned("shl_u256_max_128") =>
               InRange(shl_u256_max_128_shifts(args.a, args.sh))
        /\ Returned("shl_i256_max_128") =>
               InRange(shl_i256_max_128_shifts(args.a, args.sh))
        /\ Returned("overflowing_shl_u256_into_u128") =>
               /\ InRange(overflowing_shl_u256_into_u128_shifts(args.a, args.sh))
               /\ ~overflowing_shl_u256_into_u128_overflow(args.a, args.sh)
        /\ Returned("overflowing_shl_i256_into_i128") =>
               /\ InRange(overflowing_shl_i256_into_i128_shifts(args.a, args.sh))
               /\ ~overflowing_shl_i256_into_i128_overflow(args.a, args.sh)
        /\ Returned("div_rem_u256_u128") =>
               /\ leading_zeros(args.d) \in 0..127
               /\ InRange(div_rem_u256_u128_shifts(args.n, args.d))

\* a shift by 128: the branch moves the high limb and shifts nothing
C24_Witness ==
    /\ Returned("shl_u256_max_128")
    /\ args.sh = 128
    /\ shl_u256_max_128_shifts(args.a, args.sh) = {}
    /\ ~IsZero(args.a.hi)
    /\ out = U256(args.a.hi, Small(0, B128))

\* the plain arithmetic of one half-limb step neither overflows nor underflows
HalfStepInRange(r, d, next_half) ==
    LET u == div_half_u128_unchecked(r, d, next_half)
    IN  /\ IntLe(UVal(u.q), IntAdd(IntPow2(64), IntSmall(1)))
        /\ IntEq(UVal(u.m), IntMul(UVal(u.q), UVal(u.dl)))
        /\ IntEq(UVal(u.r), IntAdd(UVal(u.next_half), IntMul(UVal(u.rr), IntPow2(64))))
        /\ \A i \in 1..Len(u.decremented) : ~IsZero(u.decremented[i])

(***************************************************************************)
(* C25: no unchecked arithmetic in the division path can overflow or       *)
(* underflow for any U256 dividend and non-zero divisor: in div_half_u128  *)
(* the estimate q may reach 2^64 + 1 but the plain product q * dl never    *)
(* exceeds 2^128 - 1, next_half + (rr << 64) fits in 128 bits, and q -= 1  *)
(* is never executed with q = 0; in div_rem_u256_u128 each half quotient   *)
(* emitted is below 2^64, so qlh << 64 and qhh << 64 lose no bits and the  *)
(* sums qll + (qlh << 64), qhl + (qhh << 64) do not carry.                 *)
(***************************************************************************)
C25_DivisionArithmeticInRange ==
    /\ Returned("div_half_u128") =>
           HalfStepInRange(args.r, args.d, args.next_half)
    /\ Returned("div_rem_u256_u128") =>
           LET calls == div_rem_u256_u128_calls(args.n, args.d)
               q == AsSeq([i \in 1..4 |->
                               div_half_u128(calls[i][1], calls[i][2], calls[i][3])[2]])
           IN  /\ \A i \in 1..4 : HalfStepInRange(calls[i][1], calls[i][2], calls[i][3])
               /\ \A i \in 1..4 : NatLt(q[i], Pow2(64, B128))
               /\ IntEq(UVal(out[1].hi),
                        IntAdd(UVal(q[2]), IntMul(UVal(q[1]), IntPow2(64))))
               /\ IntEq(UVal(out[1].lo),
                        IntAdd(UVal(q[4]), IntMul(UVal(q[3]), IntPow2(64))))

\* d = 2^127 + 2^64 - 1 and r = d - 1: the estimate is 2^64 + 1 and q * dl is
\* 2^128 - 1
C25_Witness ==
    /\ Returned("div_half_u128")
    /\ args.d = BitOr(Pow2(127, B128), AllOnes(B64) \o Small(0, B64))
    /\ args.r = wrapping_sub(args.d, Small(1, B128))
    /\ LET u == div_half_u128_unchecked(args.r, args.d, args.next_half)
       IN  /\ u.q = BitOr(Pow2(64, B128), Small(1, B128))
           /\ u.m = AllOnes(B128)
           /\ Len(u.decremented) = 2

\* the one pair the precondition of div_rem_i256_i128_no_overflow excludes:
\* n = -2^255 and d = -1
MinByMinusOne(n, d) ==
    n = I256(Small(0, B128), Pow2(127, B128)) /\ d = AllOnes(B128)

(***************************************************************************)
(* C26: the precondition 'must not result in overflow' of                  *)
(* div_rem_i256_i128_no_overflow excludes exactly one pair of inputs: for  *)
(* every I256 n and non-zero i128 d other than (n = -2^255, d = -1),       *)
(* including n = -2^255 with any other d, d = i128::MIN, and quotients     *)
(* that need more than 128 bits, the I256 quotient returned equals n / d   *)
(* rounded toward zero and n = q * d + r holds exactly; for                *)
(* (n = -2^255, d = -1) the quotient returned is the wrapped value -2^255. *)
(***************************************************************************)
C26_SignedDivOverflowsOnlyAtMin ==
    Returned("div_rem_i256_i128_no_overflow") =>
        IF MinByMinusOne(args.n, args.d)
        THEN out[1] = I256(Small(0, B128), Pow2(127, B128))
        ELSE /\ IntEq(I256Val(out[1]), TruncDiv(I256Val(args.n), IVal(args.d)))
             /\ IntEq(I256Val(args.n),
                      IntAdd(IntMul(I256Val(out[1]), IVal(args.d)), IVal(out[2])))

\* -2^255 / -1: the quotient 2^255 is not an I256 and wraps to -2^255
C26_Witness ==
    /\ Returned("div_rem_i256_i128_no_overflow")
    /\ MinByMinusOne(args.n, args.d)
    /\ IntEq(I256Val(out[1]), IntNeg(IntPow2(255)))
    /\ IsZero(out[2])

(***************************************************************************)
(* C27: multiplication and division are inverse to each other: for all     *)
(* u128 a, non-zero u128 b and u128 c < b,                                 *)
(* div_rem_u256_u128(wrapping_add_u256_u128(wide_mul_u128(a, b), c), b)    *)
(* returns the quotient {lo: a, hi: 0} and the remainder c, and the        *)
(* wrapping addition does not wrap.                                        *)
(***************************************************************************)
C27_DivisionUndoesMultiplication ==
    /\ (fn = "mul_add_div" /\ pc = "added") =>
           IntEq(U256Val(out),
                 IntAdd(IntMul(UVal(args.a), UVal(args.b)), UVal(args.c)))
    /\ Returned("mul_add_div") =>
           /\ out[1] = U256(args.a, Small(0, B128))
           /\ out[2] = args.c

\* 1 * u128::MAX + 1 = 2^128: the addition carries into the high limb
C27_Witness ==
    /\ Returned("mul_add_div")
    /\ args.a = Small(1, B128)
    /\ args.b = AllOnes(B128)
    /\ args.c = Small(1, B128)
    /\ wrapping_add_u256_u128(wide_mul_u128(args.a, args.b), args.c)
           = U256(Small(0, B128), Small(1, B128))
    /\ out = <<U256(Small(1, B128), Small(0, B128)), Small(1, B128)>>

(***************************************************************************)
(* C28: in div_rem_u256_u128 with z = leading_zeros(d) > 0, the normalized *)
(* dividend (the bits shifted out, n.hi, n.lo) equals n * 2^z with no bit  *)
(* lost, and the running remainder left after the fourth half-limb step is *)
(* a multiple of 2^z, so the final r >>= z discards only zero bits and the *)
(* remainder returned equals n mod d for the original, un-normalized       *)
(* divisor.                                                                *)
(***************************************************************************)
C28_NormalizationLosesNothing ==
    (Returned("div_rem_u256_u128") /\ leading_zeros(args.d) > 0) =>
        LET z == leading_zeros(args.d)
            calls == div_rem_u256_u128_calls(args.n, args.d)
            normalized == calls[4][3] \o calls[3][3] \o calls[2][3] \o calls[1][3]
                              \o calls[1][1]
            last == div_half_u128(calls[4][1], calls[4][2], calls[4][3])[1]
        IN  /\ IntEq(UVal(normalized), IntMul(U256Val(args.n), IntPow2(z)))
            /\ IntEq(UVal(last), IntMul(UVal(Shr(last, z)), IntPow2(z)))
            /\ out[2] = Shr(last, z)
            /\ NatEq(out[2], NatDivMod(args.n.lo \o args.n.hi, args.d)[2])

\* d = 255 has 120 leading zeros; the top 120 bits of n.hi are the first remainder
C28_Witness ==
    /\ Returned("div_rem_u256_u128")
    /\ args.d = Small(255, B128)
    /\ args.n = U256(Small(1, B128), AllOnes(B128))
    /\ leading_zeros(args.d) = 120
    /\ div_rem_u256_u128_calls(args.n, args.d)[1][1] = Shr(AllOnes(B128), 8)
    /\ out[2] = Small(1, B128)

(***************************************************************************)
(* C29: the narrowing shifts agree with the full-width shifts for every sh *)
(* in 0..=128: overflowing_shl_u256_into_u128(a, sh) = (s.lo, s.hi != 0)   *)
(* where s = shl_u256_max_128(a, sh), and                                  *)
(* overflowing_shl_i256_into_i128(a, sh) =                                 *)
(* (t.lo as i128, t.hi != (t.lo as i128 >> 127)) where                     *)
(* t = shl_i256_max_128(a, sh).                                            *)
(***************************************************************************)
C29_NarrowingIsFullWidthLow ==
    /\ Returned("overflowing_shl_u256_into_u128") =>
           LET s == shl_u256_max_128(args.a, args.sh)
           IN  out = <<s.lo, ~IsZero(s.hi)>>
    /\ Returned("overflowing_shl_i256_into_i128") =>
           LET t == shl_i256_max_128(args.a, args.sh)
           IN  out = <<t.lo, t.hi # Sar(t.lo, 127)>>

(***************************************************************************)
(* C29, as stated: the narrowing shifts agree with the full-width shifts   *)
(* as above, and for a non-negative a the signed and the unsigned variant  *)
(* return the same bits: the same value and the same flag.                 *)
(***************************************************************************)
C29_SameBitsForNonNegative ==
    /\ C29_NarrowingIsFullWidthLow
    /\ Returned("overflowing_shl_i256_into_i128") =>
           (~is_negative(args.a.hi) =>
                out = overflowing_shl_u256_into_u128(args.a, args.sh))

(***************************************************************************)
(* C29, amended: the narrowing shifts agree with the full-width shifts as  *)
(* above; the signed and the unsigned variant return the same value bits   *)
(* for every a; for a non-negative a they return the same flag when the    *)
(* top bit of the value returned is clear, and when it is set the signed   *)
(* flag is true, the value read as an i128 being negative, whatever the    *)
(* unsigned flag is.                                                       *)
(***************************************************************************)
C29_NarrowingAgreesWithFullWidth ==
    /\ C29_NarrowingIsFullWidthLow
    /\ Returned("overflowing_shl_i256_into_i128") =>
           LET u == overflowing_shl_u256_into_u128(args.a, args.sh)
           IN  /\ out[1] = u[1]
               /\ ~is_negative(args.a.hi) =>
                      IF is_negative(out[1]) THEN out[2] ELSE out[2] = u[2]

\* 2^127 shifted by 0 as an I256: the value returned is negative, the high limb
\* of the full-width shift is 0, and the flag is set
C29_Witness ==
    /\ Returned("overflowing_shl_i256_into_i128")
    /\ args.a = I256(Pow2(127, B128), Small(0, B128))
    /\ args.sh = 0
    /\ shl_i256_max_128(args.a, args.sh) = args.a
    /\ out = <<Pow2(127, B128), TRUE>>
    /\ overflowing_shl_u256_into_u128(args.a, args.sh) = <<Pow2(127, B128), FALSE>>

\* x clamped to the range of the type of f
ClampTo(x, f) ==
    IF IntLt(FixedVal(FixedMAX(f)), x) THEN FixedVal(FixedMAX(f))
    ELSE IF IntLt(x, FixedVal(FixedMIN(f))) THEN FixedVal(FixedMIN(f))
    ELSE x

\* the left-to-right fold of the saturating product, in units of F::DELTA: the
\* product of two numbers of frac fractional bits has 2 * frac of them, and the
\* bits below F::DELTA are dropped
RECURSIVE ProductOver(_, _, _)
ProductOver(acc, items, ZERO) ==
    IF items = <<>> THEN acc
    ELSE ProductOver(ClampTo(FloorDivPow2(IntMul(acc, FixedVal(Head(items)[1])),
                                          ZERO.frac), ZERO),
                     Tail(items), ZERO)

\* the left-to-right fold of the saturating sum
RECURSIVE SumOver(_, _, _)
SumOver(acc, items, ZERO) ==
    IF items = <<>> THEN acc
    ELSE SumOver(ClampTo(IntAdd(acc, FixedVal(Head(items)[1])), ZERO),
                 Tail(items), ZERO)

\* out is a Saturating<F> of the type of the items
IsSaturatingOf(ZERO) ==
    /\ Len(out) = 1
    /\ FixedZERO(out[1]) = ZERO

(***************************************************************************)
(* C30: the product of an empty sequence of Saturating<F> is 1 converted   *)
(* to F with saturation, F::MAX when F cannot represent 1; the product of  *)
(* a non-empty sequence is the left-to-right fold of the saturating        *)
(* multiplication that starts from the first item, so the product of one   *)
(* item is that item; the sum is the left-to-right fold of the saturating  *)
(* addition that starts from ZERO; and the implementations over values and *)
(* over references return the same result, the one the items determine.    *)
(***************************************************************************)
C30_ProductAndSumFolds ==
    /\ (Returned("product") \/ Returned("product_ref")) =>
           /\ IsSaturatingOf(args.ZERO)
           /\ args.items = <<>> =>
                  IF IntLt(FixedVal(FixedMAX(args.ZERO)), IntPow2(args.ZERO.frac))
                  THEN out = Saturating(FixedMAX(args.ZERO))
                  ELSE IntEq(FixedVal(out[1]), IntPow2(args.ZERO.frac))
           /\ args.items # <<>> =>
                  IntEq(FixedVal(out[1]),
                        ProductOver(FixedVal(Head(args.items)[1]), Tail(args.items),
                                    args.ZERO))
           /\ Len(args.items) = 1 => out = args.items[1]
    /\ (Returned("sum") \/ Returned("sum_ref")) =>
           /\ IsSaturatingOf(args.ZERO)
           /\ IntEq(FixedVal(out[1]), SumOver(IntZero, args.items, args.ZERO))

\* the product of the one item 3 * F::DELTA of a signed F of 128 fractional
\* bits, which cannot represent 1: the item, and not the item times F::MAX
C30_Witness ==
    /\ Returned("product")
    /\ args.ZERO = FixedFrac(TRUE, Small(0, B128), 128)
    /\ args.items = <<Saturating(FixedFrac(TRUE, Small(3, B128), 128))>>
    /\ one_saturating_to_fixed(args.ZERO) = FixedMAX(args.ZERO)
    /\ mul(Saturating(FixedMAX(args.ZERO)), args.items[1]) # args.items[1]
    /\ out = args.items[1]

====
